---- MODULE Spec2Model ----
(***************************************************************************)
(* Detection-and-tracing engine of the sentinel forensics monitor:         *)
(* the rule engine (ValidationService), the evidence ledger                *)
(* (ForensicsService), the audit log (AuditService), the recent            *)
(* transaction cache (SolanaService) and the chain tracer                  *)
(* (TracingService).                                                       *)
(*                                                                         *)
(* Amounts are counted in units of 1000 lamports, so that the thresholds   *)
(* of config.service.ts fit 32-bit integers:                               *)
(* 100 SOL = 100000000 units, 0.001 SOL = 1000 units.                      *)
(* Block times are seconds counted from an arbitrary origin; 0 stands for  *)
(* a missing (null/undefined) blockTime, which the code tests by falsiness.*)
(***************************************************************************)
EXTENDS Integers, Sequences, FiniteSets, TLC

VARIABLES
    now,               \* Date.now(), counted in days from the start of the run
    thresholds,        \* ConfigService.config.thresholds
    rules,             \* ValidationService.rules: the Map, in insertion order
    ruleEdits,         \* number of registry edits made so far (bounded by MaxRuleEdits)
    evidenceCounter,   \* ValidationService.evidenceCounter
    lastValidation,    \* the latest validateTransaction call on the current registry:
                       \* its arguments, the registry it ran on and its outcome
    evidenceStore,     \* ForensicsService.evidenceStore
    chainOfCustodyStore, \* ForensicsService.chainOfCustodyStore
    pendingEvidence,   \* createEvidence calls waiting for the digest of their hash
    ledgerOps,         \* number of ledger calls made so far (bounded by MaxLedgerOps)
    custodyResult,     \* how the latest addChainOfCustodyEntry call ended
    exported,          \* what the latest exportEvidence call returned
    forensicAlertsStore, \* ForensicsService.alertsStore
    alertCalls,        \* the createAlert calls: the channels each has still to notify,
                       \* the channels whose notification threw, and whether it returned
    auditLogs,         \* AuditService.auditLogsStore
    isLoggingEnabled,  \* AuditService.isLoggingEnabled
    retentionDays,     \* AuditService.retentionDays
    auditCalls,        \* the logEvent calls in progress: each a stack of entries, the
                       \* last one waiting for its digest, the others for the call
                       \* their violation check made
    auditCounter,      \* number of logEvent calls made so far, nested ones included
    auditReturned,     \* the entries whose logEvent call returned in the latest step
    auditReports,      \* AuditService.auditReportsStore
    auditRead,         \* what the latest step returned, if it was a getAuditLogs,
                       \* generateAuditReport or exportAuditLogs call
    transactionCache,  \* SolanaService.transactionCache: the keys of the Map, in
                       \* insertion order
    analyses,          \* the analyzeTransactionWithRules calls in progress
    analysesStarted,   \* number of analyzeTransactionWithRules calls made so far
    transactionsStore, \* SolanaService.transactionsStore: the ids of its entries
    alertsStore,       \* SolanaService.alertsStore
    validated,         \* the signatures validateTransaction was called on by the
                       \* analyses, in the order of the calls
    monitoring,        \* SolanaService monitoring: the timers and account listeners
    imported,          \* what the latest importRules call was given and returned
    clusterDetection,  \* the determineClusterDynamic call: its URL, what the endpoint
                       \* answered, and what the call returned
                       \* that are active, monitoringInterval, the subscriptions Map,
                       \* and the startMonitoring and disconnect calls in progress
    trace              \* the traceChainFlow call of the run: its arguments, the ledger it
                       \* reads, the buildChainFlow calls in progress, and what they did

rulesVars == <<rules, ruleEdits, evidenceCounter, lastValidation>>
ledgerVars == <<evidenceStore, chainOfCustodyStore, pendingEvidence, ledgerOps, custodyResult, exported>>
alertVars == <<forensicAlertsStore, alertCalls>>
auditVars == <<auditLogs, isLoggingEnabled, retentionDays, auditCalls, auditCounter,
               auditReturned>>
auditReadVars == <<auditReports, auditRead>>
cacheVars == <<transactionCache, analyses, analysesStarted>>
storeVars == <<transactionsStore, alertsStore, validated>>

vars == <<now, thresholds, rulesVars, ledgerVars, alertVars, monitoring, imported, clusterDetection, auditVars, auditReadVars, cacheVars, storeVars, trace>>

\* what the methods of one service leave alone
outsideRules == <<now, thresholds, ledgerVars, alertVars, monitoring, imported, clusterDetection, auditVars, auditReadVars, cacheVars, storeVars, trace>>
outsideLedger == <<now, thresholds, rulesVars, alertVars, monitoring, imported, clusterDetection, auditVars, auditReadVars, cacheVars, storeVars, trace>>
outsideAlerts == <<now, thresholds, rulesVars, ledgerVars, monitoring, imported, clusterDetection, auditVars, auditReadVars, cacheVars, storeVars, trace>>
outsideMonitoring == <<now, thresholds, rulesVars, ledgerVars, alertVars, imported, clusterDetection, auditVars, auditReadVars, trace>>
outsideImport == <<now, thresholds, ledgerVars, alertVars, monitoring, clusterDetection, auditVars, auditReadVars, cacheVars, storeVars, trace>>
outsideCluster == <<now, thresholds, rulesVars, ledgerVars, alertVars, monitoring, imported, auditVars, auditReadVars, cacheVars, storeVars, trace>>
outsideAudit == <<now, thresholds, rulesVars, ledgerVars, alertVars, monitoring, imported, clusterDetection, cacheVars, storeVars, trace>>
outsideCache == <<now, thresholds, rulesVars, ledgerVars, alertVars, monitoring, imported, clusterDetection, auditVars, auditReadVars, trace>>
outsideTrace == <<now, thresholds, rulesVars, ledgerVars, alertVars, monitoring, imported, clusterDetection, auditVars, auditReadVars, cacheVars, storeVars>>

(***************************************************************************)
(* JavaScript values                                                       *)
(***************************************************************************)
Num(n) == [t |-> "num", v |-> n]
Str(s) == [t |-> "str", v |-> s]
Bool(b) == [t |-> "bool", v |-> b]
Null == [t |-> "null"]
Undefined == [t |-> "undefined"]
NaN == [t |-> "nan"]
NegInfinity == [t |-> "neginf"]

\* The Number a relational operator sees for a value (ToNumber): a boolean is 0 or 1,
\* a string that is no numeral (every string of this model) is NaN.
ToNumber(x) ==
    CASE x.t = "num" -> x
      [] x.t = "bool" -> Num(IF x.v THEN 1 ELSE 0)
      [] x.t = "null" -> Num(0)
      [] x.t = "neginf" -> x
      [] OTHER -> NaN

\* a < b on Numbers; every comparison with NaN is false
NumLess(a, b) ==
    CASE a.t = "nan" \/ b.t = "nan" -> FALSE
      [] a.t = "neginf" -> b.t # "neginf"
      [] b.t = "neginf" -> FALSE
      [] OTHER -> a.v < b.v

NumEq(a, b) ==
    CASE a.t = "nan" \/ b.t = "nan" -> FALSE
      [] a.t = "neginf" \/ b.t = "neginf" -> a.t = b.t
      [] OTHER -> a.v = b.v

JsLess(a, b) == NumLess(ToNumber(a), ToNumber(b))
JsLessEq(a, b) == NumLess(ToNumber(a), ToNumber(b)) \/ NumEq(ToNumber(a), ToNumber(b))

\* a === b
StrictEquals(a, b) ==
    /\ a.t = b.t
    /\ a.t # "nan"
    /\ (a.t \in {"num", "str", "bool"} => a.v = b.v)

(***************************************************************************)
(* Strings as character sequences, for String(v), includes() and RegExp    *)
(***************************************************************************)
Digit(d) == CASE d = 0 -> "0" [] d = 1 -> "1" [] d = 2 -> "2" [] d = 3 -> "3"
              [] d = 4 -> "4" [] d = 5 -> "5" [] d = 6 -> "6" [] d = 7 -> "7"
              [] d = 8 -> "8" [] OTHER -> "9"

RECURSIVE Digits(_)
Digits(n) == IF n < 10 THEN <<Digit(n)>> ELSE Append(Digits(n \div 10), Digit(n % 10))

\* the characters of the string literals that occur in the model
Chars(s) ==
    CASE s = "success" -> <<"s", "u", "c", "c", "e", "s", "s">>
      [] s = "failed" -> <<"f", "a", "i", "l", "e", "d">>
      [] s = "fail" -> <<"f", "a", "i", "l">>
      [] s = "(" -> <<"(">>
      [] s = "50" -> <<"5", "0">>
      [] OTHER -> <<s>>

\* String(value)
ToStringChars(x) ==
    CASE x.t = "str" -> Chars(x.v)
      [] x.t = "num" -> IF x.v < 0 THEN <<"-">> \o Digits(-x.v) ELSE Digits(x.v)
      [] x.t = "bool" -> IF x.v THEN <<"t", "r", "u", "e">> ELSE <<"f", "a", "l", "s", "e">>
      [] x.t = "neginf" -> <<"-", "I", "n", "f", "i", "n", "i", "t", "y">>
      [] x.t = "nan" -> <<"N", "a", "N">>
      [] OTHER -> Chars(x.t)

\* haystack.includes(needle)
Includes(hay, needle) ==
    \E i \in 1..(Len(hay) + 1) :
        /\ i + Len(needle) - 1 <= Len(hay)
        /\ SubSeq(hay, i, i + Len(needle) - 1) = needle

\* new RegExp(p) throws a SyntaxError for an unterminated group; the patterns of the
\* model are literals and the lone "("
RegExpThrows(p) ==
    Cardinality({i \in 1..Len(p) : p[i] = "("}) # Cardinality({i \in 1..Len(p) : p[i] = ")"})

\* new RegExp(p).test(s) for a pattern of literal characters
RegExpTest(p, s) == Includes(s, p)

(***************************************************************************)
(* JSON.stringify and SHA-256                                              *)
(***************************************************************************)
Obj(pairs) == [t |-> "obj", v |-> pairs]   \* an object: its <<key, value>> pairs in key order
Arr(items) == [t |-> "arr", v |-> items]

\* JSON.stringify(x), as the tree of the text it produces: a property whose value is
\* undefined is left out, NaN and the infinities are written null, an undefined array
\* element is written null.  Two values give the same text iff they give the same tree.
RECURSIVE JsonStringify(_)
JsonStringify(x) ==
    CASE x.t = "obj" ->
            LET kept == SelectSeq(x.v, LAMBDA kv : kv[2].t # "undefined")
            IN  Obj([i \in 1..Len(kept) |-> <<kept[i][1], JsonStringify(kept[i][2])>>])
      [] x.t = "arr" ->
            Arr([i \in 1..Len(x.v) |->
                    IF x.v[i].t = "undefined" THEN Null ELSE JsonStringify(x.v[i])])
      [] x.t \in {"nan", "neginf", "null"} -> Null
      [] OTHER -> x

\* crypto.subtle.digest('SHA-256', text) in hex: distinct texts give distinct digests
Sha256(text) == [sha256 |-> text]

EmptyHash == [sha256 |-> [t |-> "empty"]]   \* the '' a record carries before it is hashed

(***************************************************************************)
(* Transactions (SolanaTransactionDetails)                                 *)
(***************************************************************************)
NoAccount == ""   \* the undefined of `find(...)?.account`

BalanceChange(account, change) == [account |-> account, change |-> change]

Tx(sig, slot, blockTime, fee, status, changes) ==
    [signature |-> sig, slot |-> slot, blockTime |-> blockTime, fee |-> fee,
     status |-> status, balanceChanges |-> changes]

\* a transfer of `amount` from one account to another; the sender also pays the fee
Transfer(sig, slot, blockTime, fee, status, from, to, amount) ==
    Tx(sig, slot, blockTime, fee, status,
       <<BalanceChange(from, -(amount + fee)), BalanceChange(to, amount)>>)

Abs(n) == IF n < 0 THEN -n ELSE n

\* balanceChanges.find((bc) => bc.change < 0)?.account
SenderOf(tx) ==
    LET neg == SelectSeq(tx.balanceChanges, LAMBDA bc : bc.change < 0)
    IN  IF neg = <<>> THEN NoAccount ELSE neg[1].account

\* balanceChanges.find((bc) => bc.change > 0)?.account
ReceiverOf(tx) ==
    LET pos == SelectSeq(tx.balanceChanges, LAMBDA bc : bc.change > 0)
    IN  IF pos = <<>> THEN NoAccount ELSE pos[1].account

HasBlockTime(tx) == tx.blockTime # 0

(***************************************************************************)
(* ValidationService: field extractors                                     *)
(***************************************************************************)
SeqToSet(s) == {s[i] : i \in 1..Len(s)}

\* the flow chain of detectCircularPattern: one (from, to) edge per transaction that has
\* balance changes, a sender and a receiver
FlowChain(txs) ==
    LET ok(tx) == /\ Len(tx.balanceChanges) > 0
                  /\ SenderOf(tx) # NoAccount
                  /\ ReceiverOf(tx) # NoAccount
        kept == SelectSeq(txs, ok)
    IN  [i \in 1..Len(kept) |-> [from |-> SenderOf(kept[i]), to |-> ReceiverOf(kept[i])]]

\* the extractor taking any reappearance of the first sender after the first edge
detectCircularPatternFromIndexOne(tx, ctx) ==
    IF Len(ctx.recentTransactions) < 2 THEN FALSE
    ELSE LET flowChain == FlowChain(Append(ctx.recentTransactions, tx))
         IN  /\ Len(flowChain) >= 3
             /\ LET firstSender == flowChain[1].from
                    lastReceiver == flowChain[Len(flowChain)].to
                IN  \/ \E i \in 2..Len(flowChain) :
                            flowChain[i].to = firstSender \/ flowChain[i].from = firstSender
                    \/ lastReceiver = firstSender

detectCircularPattern(tx, ctx) ==
    IF Len(ctx.recentTransactions) < 2 THEN FALSE
    ELSE LET flowChain == FlowChain(Append(ctx.recentTransactions, tx))
         IN  /\ Len(flowChain) >= 3
             /\ LET firstSender == flowChain[1].from
                    lastReceiver == flowChain[Len(flowChain)].to
                IN  \/ \E i \in 2..Len(flowChain) :
                            /\ flowChain[i].to = firstSender \/ flowChain[i].from = firstSender
                            /\ i - 1 >= 2
                    \/ lastReceiver = firstSender

FanOutWindowMs == 60000
ClusterWindowMs == 300000

\* the extractor without its time window
detectFanOutPatternNoWindow(tx, ctx) ==
    IF Len(ctx.recentTransactions) = 0 THEN 0
    ELSE IF SenderOf(tx) = NoAccount THEN 0
    ELSE LET currentSender == SenderOf(tx)
             recentTxs == Append(ctx.recentTransactions, tx)
             recipients == {ReceiverOf(recentTxs[i]) : i \in
                               {j \in 1..Len(recentTxs) :
                                   /\ SenderOf(recentTxs[j]) = currentSender
                                   /\ ReceiverOf(recentTxs[j]) # NoAccount}}
         IN  Cardinality(recipients)

detectFanOutPattern(tx, ctx) ==
    IF Len(ctx.recentTransactions) = 0 THEN 0
    ELSE IF SenderOf(tx) = NoAccount THEN 0
    ELSE LET currentSender == SenderOf(tx)
             inWindow(t) ==
                 IF ~HasBlockTime(tx) \/ ~HasBlockTime(t) THEN TRUE
                 ELSE Abs((tx.blockTime - t.blockTime) * 1000) <= FanOutWindowMs
             recentTxs == SelectSeq(Append(ctx.recentTransactions, tx), inWindow)
             recipients == {ReceiverOf(recentTxs[i]) : i \in
                               {j \in 1..Len(recentTxs) :
                                   /\ SenderOf(recentTxs[j]) = currentSender
                                   /\ ReceiverOf(recentTxs[j]) # NoAccount}}
         IN  Cardinality(recipients)

detectClusterActivity(tx, ctx) ==
    IF Len(ctx.recentTransactions) = 0 THEN 0
    ELSE LET currentAddresses ==
                 {tx.balanceChanges[i].account : i \in 1..Len(tx.balanceChanges)} \ {NoAccount}
             inWindow(t) == Abs(tx.blockTime - t.blockTime) * 1000 <= ClusterWindowMs
             recentTxs == SelectSeq(ctx.recentTransactions, inWindow)
             hasCommon(t) == \E i \in 1..Len(t.balanceChanges) :
                                 t.balanceChanges[i].account \in currentAddresses
         IN  Len(SelectSeq(recentTxs, hasCommon))

\* Math.max(...balanceChanges.map((bc) => Math.abs(bc.change))): -Infinity when empty
MaxAbsChange(tx) ==
    IF tx.balanceChanges = <<>> THEN NegInfinity
    ELSE LET mags == {Abs(tx.balanceChanges[i].change) : i \in 1..Len(tx.balanceChanges)}
         IN  Num(CHOOSE m \in mags : \A k \in mags : k <= m)

extractFieldValue(tx, ctx, field) ==
    CASE field = "balanceChange" -> MaxAbsChange(tx)
      [] field = "fee" -> Num(tx.fee)
      [] field = "status" -> Str(tx.status)
      [] field = "transactionCount" -> Num(Len(ctx.recentTransactions))
      [] field = "accountBalance" -> Num(ctx.accountBalance)
      [] field = "slot" -> Num(tx.slot)
      [] field = "blockTime" -> IF HasBlockTime(tx) THEN Num(tx.blockTime) ELSE Null
      [] field = "circularPattern" -> Bool(detectCircularPattern(tx, ctx))
      [] field = "fanOutRecipients" -> Num(detectFanOutPattern(tx, ctx))
      [] field = "clusterActivity" -> Num(detectClusterActivity(tx, ctx))
      [] OTHER -> Null

(***************************************************************************)
(* ValidationService: conditions and rules                                 *)
(***************************************************************************)
Condition(field, operator, value) == [field |-> field, operator |-> operator, value |-> value]

Rule(id, enabled, severity, conditions, actions) ==
    [id |-> id, enabled |-> enabled, severity |-> severity,
     conditions |-> conditions, actions |-> actions]

\* evaluateCondition raises (a SyntaxError of new RegExp) instead of returning
ConditionThrows(condition, value) ==
    /\ value.t \notin {"null", "undefined"}
    /\ condition.operator = "regex"
    /\ RegExpThrows(ToStringChars(condition.value))

evaluateCondition(condition, value) ==
    IF value.t \in {"null", "undefined"} THEN FALSE
    ELSE CASE condition.operator = "gt" -> JsLess(condition.value, value)
           [] condition.operator = "lt" -> JsLess(value, condition.value)
           [] condition.operator = "eq" -> StrictEquals(value, condition.value)
           [] condition.operator = "gte" -> JsLessEq(condition.value, value)
           [] condition.operator = "lte" -> JsLessEq(value, condition.value)
           [] condition.operator = "ne" -> ~StrictEquals(value, condition.value)
           [] condition.operator = "contains" ->
                  Includes(ToStringChars(value), ToStringChars(condition.value))
           [] condition.operator = "regex" ->
                  RegExpTest(ToStringChars(condition.value), ToStringChars(value))
           [] OTHER -> FALSE

\* details[field] = value on a JavaScript object: a key keeps its first position
SetKey(pairs, key, value) ==
    IF \E i \in 1..Len(pairs) : pairs[i][1] = key
    THEN [i \in 1..Len(pairs) |-> IF pairs[i][1] = key THEN <<key, value>> ELSE pairs[i]]
    ELSE Append(pairs, <<key, value>>)

\* the loop of evaluateRule from condition i on; `threw` when a condition raised.
\* A matched condition is recorded by its position, which stands for its description.
\* one turn of the loop, on the value extracted for the condition
EvaluateOneCondition(acc, i, condition, fieldValue) ==
    IF ConditionThrows(condition, fieldValue)
    THEN [acc EXCEPT !.threw = TRUE]
    ELSE IF evaluateCondition(condition, fieldValue)
    THEN [acc EXCEPT !.matchedConditions = Append(@, i),
                     !.details = SetKey(@, condition.field, fieldValue)]
    ELSE acc

RECURSIVE EvaluateConditions(_, _, _, _, _)
EvaluateConditions(conditions, i, tx, ctx, acc) ==
    IF i > Len(conditions) \/ acc.threw
    THEN acc
    ELSE EvaluateConditions(conditions, i + 1, tx, ctx,
             EvaluateOneCondition(acc, i, conditions[i],
                                  extractFieldValue(tx, ctx, conditions[i].field)))

\* a rule engine that fires a rule as soon as one of its conditions matches
TriggeredOnAnyMatch(rule, matchedConditions) == Len(matchedConditions) >= 1

\* whether the rule counts as triggered, from the conditions that matched
Triggered(rule, matchedConditions) == Len(matchedConditions) = Len(rule.conditions)

\* the RuleResult, from what the loop over the conditions gave
RuleResult(rule, r) ==
    [threw |-> r.threw,
     triggered |-> ~r.threw /\ Triggered(rule, r.matchedConditions),
     matchedConditions |-> r.matchedConditions,
     details |-> r.details]

evaluateRule(rule, tx, ctx) ==
    RuleResult(rule, EvaluateConditions(rule.conditions, 1, tx, ctx,
                                        [threw |-> FALSE, matchedConditions |-> <<>>,
                                         details |-> <<>>]))

mapRuleToEvidenceType(ruleId) ==
    CASE ruleId = "large_transfer" -> "large_transfer"
      [] ruleId = "rapid_movement" -> "rapid_movement"
      [] ruleId = "wallet_clustering" -> "unusual_pattern"
      [] ruleId = "high_fee" -> "unusual_pattern"
      [] OTHER -> "suspicious_transaction"

mapRuleToAlertType(ruleId) ==
    CASE ruleId = "large_transfer" -> "large_transfer"
      [] ruleId = "rapid_movement" -> "rapid_movement"
      [] ruleId = "circular_transfer" -> "circular_transfer"
      [] ruleId = "fan_out_pattern" -> "fan_out_pattern"
      [] ruleId = "wallet_clustering" -> "unusual_pattern"
      [] ruleId = "high_fee" -> "unusual_pattern"
      [] OTHER -> "suspicious_activity"

\* the canonical fields ForensicsService.calculateEvidenceHash serialises
CanonicalFields(evidence) ==
    Obj(<< <<"id", Str(evidence.id)>>,
           <<"transactionId", Str(evidence.transactionId)>>,
           <<"timestamp", evidence.timestamp>>,
           <<"evidenceType", Str(evidence.evidenceType)>>,
           <<"description", Str(evidence.description)>>,
           <<"data", evidence.data>> >>)

calculateEvidenceHash(evidence) == Sha256(JsonStringify(CanonicalFields(evidence)))

verifyEvidenceIntegrity(evidence) == calculateEvidenceHash(evidence) = evidence.hash

\* evidence that also carries the number it was given by the counter of the service
ValidationCreateEvidenceNumbered(rule, tx, ruleResult, counter, time) ==
    LET evidenceData ==
            Obj(<< <<"ruleId", Str(rule.id)>>,
                   <<"ruleName", Str(rule.id)>>,
                   <<"transactionSignature", Str(tx.signature)>>,
                   <<"matchedConditions",
                     Arr([i \in 1..Len(ruleResult.matchedConditions) |->
                             Num(ruleResult.matchedConditions[i])])>>,
                   <<"details", Obj(ruleResult.details)>>,
                   <<"sequence", Num(counter)>>,
                   <<"timestamp", Num(time)>> >>)
        evidenceHash == Sha256(JsonStringify(evidenceData))
    IN  [id |-> <<"evidence", counter, time>>,
         transactionId |-> tx.signature,
         timestamp |-> Num(time),
         evidenceType |-> mapRuleToEvidenceType(rule.id),
         description |-> rule.id,
         data |-> evidenceData,
         hash |-> evidenceHash,
         chainOfCustody |-> << [timestamp |-> time, action |-> "created",
                                 actor |-> "validation-service",
                                 description |-> "Evidence created by rule",
                                 hash |-> evidenceHash] >>,
         metadata |-> [investigator |-> "system",
                       priority |-> IF rule.severity = "critical" THEN "critical"
                                    ELSE IF rule.severity = "warning" THEN "high"
                                    ELSE "medium"]]

\* ValidationService.createEvidence: the hash is taken over evidenceData alone
ValidationCreateEvidence(rule, tx, ruleResult, counter, time) ==
    LET evidenceData ==
            Obj(<< <<"ruleId", Str(rule.id)>>,
                   <<"ruleName", Str(rule.id)>>,
                   <<"transactionSignature", Str(tx.signature)>>,
                   <<"matchedConditions",
                     Arr([i \in 1..Len(ruleResult.matchedConditions) |->
                             Num(ruleResult.matchedConditions[i])])>>,
                   <<"details", Obj(ruleResult.details)>>,
                   <<"timestamp", Num(time)>> >>)
        evidenceHash == Sha256(JsonStringify(evidenceData))
    IN  [id |-> <<"evidence", counter, time>>,
         transactionId |-> tx.signature,
         timestamp |-> Num(time),
         evidenceType |-> mapRuleToEvidenceType(rule.id),
         description |-> rule.id,
         data |-> evidenceData,
         hash |-> evidenceHash,
         chainOfCustody |-> << [timestamp |-> time, action |-> "created",
                                 actor |-> "validation-service",
                                 description |-> "Evidence created by rule",
                                 hash |-> evidenceHash] >>,
         metadata |-> [investigator |-> "system",
                       priority |-> IF rule.severity = "critical" THEN "critical"
                                    ELSE IF rule.severity = "warning" THEN "high"
                                    ELSE "medium"]]

ValidationCreateAlert(rule, tx, evidence, time) ==
    [id |-> <<"alert", time>>,
     timestamp |-> time,
     severity |-> rule.severity,
     type |-> mapRuleToAlertType(rule.id),
     transactionId |-> tx.signature,
     walletAddress |-> IF SenderOf(tx) = NoAccount THEN "Unknown" ELSE SenderOf(tx),
     evidence |-> evidence,
     status |-> "new",
     notifications |-> <<>>]

\* a rule engine that looks at the first action only
HasAlertActionFirst(rule) == rule.actions # <<>> /\ rule.actions[1] = "alert"

HasAlertAction(rule) == \E i \in 1..Len(rule.actions) : rule.actions[i] = "alert"

\* a triggered rule: its evidence is pushed, and its alert if it has an alert action
PushEvidence(acc, rule, tx, evidenceItem, time) ==
    [acc EXCEPT !.counter = @ + 1,
                !.evidence = Append(@, evidenceItem),
                !.alerts = IF HasAlertAction(rule)
                           THEN Append(@, ValidationCreateAlert(rule, tx, evidenceItem, time))
                           ELSE @]

\* one turn of the loop of validateTransaction, on the result of evaluateRule.  An
\* exception of evaluateRule leaves the loop: the call rejects and returns nothing.
ApplyRuleResult(acc, rule, tx, ruleResult, time) ==
    IF ruleResult.threw
    THEN [acc EXCEPT !.threw = TRUE, !.alerts = <<>>, !.evidence = <<>>]
    ELSE IF ~ruleResult.triggered
    THEN acc
    ELSE PushEvidence(acc, rule, tx,
                      ValidationCreateEvidence(rule, tx, ruleResult, acc.counter + 1, time),
                      time)

\* the loop of validateTransaction over the registry from rule i on; acc carries the
\* alerts and evidence pushed so far and the evidence counter
RECURSIVE ValidateFrom(_, _, _, _, _, _)
ValidateFrom(registry, i, tx, ctx, time, acc) ==
    IF i > Len(registry) \/ acc.threw THEN acc
    ELSE ValidateFrom(registry, i + 1, tx, ctx, time,
                      IF registry[i].enabled
                      THEN ApplyRuleResult(acc, registry[i], tx,
                                           evaluateRule(registry[i], tx, ctx), time)
                      ELSE acc)

validateTransaction(registry, tx, ctx, counter, time) ==
    ValidateFrom(registry, 1, tx, ctx, time,
                 [threw |-> FALSE, alerts |-> <<>>, evidence |-> <<>>, counter |-> counter])

(***************************************************************************)
(* ValidationService: the registry                                         *)
(***************************************************************************)
LargeTransferThreshold == 100000000   \* 100 SOL
MinimumTransferThreshold == 1000      \* 0.001 SOL
FanOutMinRecipients == 3
ClusterMinInteractions == 5
RapidMovementCount == 5

\* initializeDefaultRules
DefaultRules ==
    << Rule("large_transfer", TRUE, "critical",
            <<Condition("balanceChange", "gt", Num(LargeTransferThreshold))>>,
            <<"alert", "trace">>),
       Rule("circular_transfer", TRUE, "emergency",
            <<Condition("circularPattern", "eq", Bool(TRUE))>>,
            <<"alert", "trace">>),
       Rule("fan_out_pattern", TRUE, "critical",
            <<Condition("fanOutRecipients", "gte", Num(FanOutMinRecipients))>>,
            <<"alert", "trace">>),
       Rule("wallet_clustering", TRUE, "warning",
            <<Condition("clusterActivity", "gte", Num(ClusterMinInteractions))>>,
            <<"alert", "log">>),
       Rule("rapid_movement", TRUE, "warning",
            <<Condition("transactionCount", "gt", Num(RapidMovementCount))>>,
            <<"alert">>),
       Rule("failed_transaction", TRUE, "warning",
            <<Condition("status", "eq", Str("failed"))>>,
            <<"log">>),
       Rule("high_fee", TRUE, "info",
            <<Condition("fee", "gt", Num(MinimumTransferThreshold))>>,
            <<"log">>) >>

RuleIds(registry) == {registry[i].id : i \in 1..Len(registry)}

\* Map.set: a known key keeps its place, a new key goes last
addRule(registry, rule) ==
    IF rule.id \in RuleIds(registry)
    THEN [i \in 1..Len(registry) |-> IF registry[i].id = rule.id THEN rule ELSE registry[i]]
    ELSE Append(registry, rule)

\* Map.delete
removeRule(registry, ruleId) == SelectSeq(registry, LAMBDA r : r.id # ruleId)

\* updateRule(ruleId, {enabled}) as toggleRule calls it; nothing changes for an unknown id
toggleRule(registry, ruleId, enabled) ==
    [i \in 1..Len(registry) |->
        IF registry[i].id = ruleId THEN [registry[i] EXCEPT !.enabled = enabled]
        ELSE registry[i]]

(***************************************************************************)
(* The clock                                                               *)
(***************************************************************************)
MaxTime == 1   \* the clock stops advancing here

NoRead == [op |-> "none"]   \* the latest step was no read of the audit log

Tick ==
    /\ now < MaxTime
    /\ now' = now + 1
    /\ auditRead' = NoRead
    /\ UNCHANGED <<thresholds, rulesVars, ledgerVars, alertVars, monitoring, imported, clusterDetection, auditVars, auditReports, cacheVars,
                   storeVars, trace>>

(***************************************************************************)
(* Inputs of the rule engine                                               *)
(***************************************************************************)
MaxRuleEdits == 1        \* registry edits (addRule, removeRule, toggleRule) per run
MaxEvidenceCounter == 1  \* validateTransaction is not called again past this counter
MaxRepeatCounter == 4    \* nor, where calls are repeated, past this one

Sol == 1000 * 1000       \* one SOL, in units of 1000 lamports
NormalFee == 5
HighFee == 2000

T150 == Transfer("t150", 10, 1000, NormalFee, "success", "A", "B", 150 * Sol)
TFailed == Transfer("tFailed", 11, 1010, HighFee, "failed", "A", "D", 50 * Sol)
TBigFailed == Transfer("tBigFailed", 12, 1020, NormalFee, "failed", "A", "D", 200 * Sol)
TEmpty == Tx("tEmpty", 13, 0, NormalFee, "success", <<>>)

Small(sig, slot, blockTime, from, to) ==
    Transfer(sig, slot, blockTime, NormalFee, "success", from, to, Sol)

TOnward == Small("tOnward", 14, 1000, "C", "D")
TReturn == Small("tReturn", 15, 1000, "D", "A")

TxPool == {T150, TFailed, TBigFailed, TEmpty}

\* transactions and contexts that exercise the pattern extractors
PatternTxPool == {T150, TFailed, TEmpty, TOnward, TReturn}

Context(recent) == [walletAddress |-> "A", recentTransactions |-> recent, accountBalance |-> 0]

CtxPool ==
    { Context(<<>>),
      Context(<<Small("f1", 7, 990, "A", "B"), Small("f2", 8, 995, "A", "C")>>),
      Context(<<Small("c1", 7, 990, "A", "B"), Small("c2", 8, 995, "B", "C"),
                Small("c3", 9, 998, "C", "A")>>),
      Context(<<Small("b1", 4, 940, "B", "C"), Small("b2", 5, 950, "B", "C"),
                Small("b3", 6, 960, "B", "C"), Small("b4", 7, 970, "D", "C"),
                Small("b5", 8, 980, "D", "C"), Small("b6", 9, 990, "D", "C")>>) }

PatternCtxPool ==
    { Context(<<>>),
      Context(<<Small("f1", 7, 990, "A", "B"), Small("f2", 8, 995, "A", "C")>>),
      Context(<<Small("w1", 6, 900, "A", "E"), Small("w2", 7, 990, "A", "B"),
                Small("w3", 8, 995, "A", "C")>>),
      Context(<<Small("c1", 7, 990, "A", "B"), Small("c2", 8, 995, "B", "C"),
                Small("c3", 9, 998, "C", "A")>>),
      Context(<<Small("o1", 7, 990, "A", "B"), Small("o2", 8, 995, "B", "C")>>),
      Context(<<Small("o1", 7, 990, "A", "B"), Small("o2", 8, 995, "B", "C"),
                Small("o3", 9, 998, "C", "D")>>),
      Context(<<Small("p1", 7, 990, "A", "B"), Small("p2", 8, 995, "B", "A")>>) }

\* transactions with and without a block time, and recent transactions with and without
TTimed == Small("tTimed", 20, 1000, "A", "B")
TUntimed == Small("tUntimed", 21, 0, "A", "B")

WindowTxPool == {TTimed, TUntimed}

WindowCtxPool ==
    { Context(<<>>),
      \* five recent transactions in both windows of TTimed
      Context(<<Small("k1", 1, 950, "B", "C"), Small("k2", 2, 960, "B", "C"),
                Small("k3", 3, 970, "B", "D"), Small("k4", 4, 980, "A", "C"),
                Small("k5", 5, 990, "A", "D")>>),
      \* the last one has no block time
      Context(<<Small("k1", 1, 950, "B", "C"), Small("k2", 2, 960, "B", "C"),
                Small("k3", 3, 970, "B", "D"), Small("k4", 4, 980, "A", "C"),
                Small("k5", 5, 0, "A", "D")>>),
      \* none has a block time
      Context(<<Small("k1", 1, 0, "B", "C"), Small("k2", 2, 0, "B", "C"),
                Small("k3", 3, 0, "B", "D"), Small("k4", 4, 0, "A", "C"),
                Small("k5", 5, 0, "A", "D")>>),
      \* the last one is outside both windows of TTimed
      Context(<<Small("k1", 1, 950, "B", "C"), Small("k2", 2, 960, "B", "C"),
                Small("k3", 3, 970, "B", "D"), Small("k4", 4, 980, "A", "C"),
                Small("k5", 5, 1400, "A", "D")>>) }

\* rules an investigator may add to the registry
RulePool ==
    { Rule("big_failed", TRUE, "critical",
           <<Condition("balanceChange", "gt", Num(LargeTransferThreshold)),
             Condition("status", "eq", Str("failed"))>>,
           <<"log", "alert">>),
      Rule("cheap_or_odd", TRUE, "info",
           <<Condition("fee", "lte", Num(NormalFee)),
             Condition("status", "ne", Str("failed")),
             Condition("balanceChange", "lt", Num(LargeTransferThreshold))>>,
           <<"alert">>),
      Rule("no_conditions", TRUE, "warning", <<>>, <<"alert">>),
      Rule("bad_regex", TRUE, "warning",
           <<Condition("status", "regex", Str("("))>>,
           <<"alert">>),
      Rule("status_text", TRUE, "info",
           <<Condition("status", "contains", Str("fail")),
             Condition("status", "regex", Str("failed")),
             Condition("slot", "gte", Num(11))>>,
           <<"alert">>),
      Rule("unknown_field", TRUE, "warning",
           <<Condition("riskScore", "ne", Num(0))>>,
           <<"alert">>) }

\* no call has been made on the registry as it stands (the record of a call is dropped
\* when the registry is edited)
NoCall == [called |-> FALSE]

(***************************************************************************)
(* Actions of the rule engine                                              *)
(***************************************************************************)
\* the thresholds of the default configuration
InitConfig ==
    thresholds = [largeTransferThreshold |-> LargeTransferThreshold,
                  minimumTransferThreshold |-> MinimumTransferThreshold]

\* the ValidationService is constructed on the default configuration
\* the value JSON.stringify is given for a rule, and the rule JSON.parse gives back
RuleToValue(rule) ==
    Obj(<< <<"id", Str(rule.id)>>,
           <<"enabled", Bool(rule.enabled)>>,
           <<"severity", Str(rule.severity)>>,
           <<"conditions",
             Arr([i \in 1..Len(rule.conditions) |->
                     Obj(<< <<"field", Str(rule.conditions[i].field)>>,
                            <<"operator", Str(rule.conditions[i].operator)>>,
                            <<"value", rule.conditions[i].value>> >>)])>>,
           <<"actions", Arr([i \in 1..Len(rule.actions) |-> Str(rule.actions[i])])>> >>)

Property(object, key) ==
    LET hit == SelectSeq(object.v, LAMBDA kv : kv[1] = key)
    IN  IF hit = <<>> THEN Undefined ELSE hit[1][2]

ValueToRule(value) ==
    LET conditions == Property(value, "conditions").v
        actions == Property(value, "actions").v
    IN  Rule(Property(value, "id").v, Property(value, "enabled").v,
             Property(value, "severity").v,
             [i \in 1..Len(conditions) |->
                 Condition(Property(conditions[i], "field").v,
                           Property(conditions[i], "operator").v,
                           Property(conditions[i], "value"))],
             [i \in 1..Len(actions) |-> actions[i].v])

\* a text JSON.parse rejects
InvalidJson == [t |-> "invalid"]

\* exportRules(): JSON.stringify(Array.from(this.rules.values()))
exportRules(registry) ==
    JsonStringify(Arr([i \in 1..Len(registry) |-> RuleToValue(registry[i])]))

\* the loop of importRules from item i on: rule.id of null throws, which the catch turns
\* into false; rules.set replaces the rule of the same id
RECURSIVE importRulesLoop(_, _, _)
importRulesLoop(registry, items, i) ==
    IF i > Len(items) THEN [ok |-> TRUE, registry |-> registry]
    ELSE IF items[i].t = "null" THEN [ok |-> FALSE, registry |-> registry]
    ELSE importRulesLoop(addRule(registry, ValueToRule(items[i])), items, i + 1)

\* importRules(rulesJson): JSON.parse throws before the registry is touched; a parsed
\* value that cannot be iterated throws after rules.clear()
importRules(registry, rulesJson) ==
    IF rulesJson = InvalidJson THEN [ok |-> FALSE, registry |-> registry]
    ELSE IF rulesJson.t # "arr" THEN [ok |-> FALSE, registry |-> <<>>]
    ELSE importRulesLoop(<<>>, rulesJson.v, 1)

NoImport == [called |-> FALSE]

InitImport == imported = NoImport

InitRules ==
    /\ rules = DefaultRules
    /\ ruleEdits = 0
    /\ evidenceCounter = 0
    /\ lastValidation = NoCall

AddRule(rule) ==
    /\ ruleEdits < MaxRuleEdits
    /\ rules' = addRule(rules, rule)
    /\ ruleEdits' = ruleEdits + 1
    /\ lastValidation' = NoCall
    /\ UNCHANGED <<evidenceCounter, outsideRules>>

RemoveRule(ruleId) ==
    /\ ruleEdits < MaxRuleEdits
    /\ rules' = removeRule(rules, ruleId)
    /\ ruleEdits' = ruleEdits + 1
    /\ lastValidation' = NoCall
    /\ UNCHANGED <<evidenceCounter, outsideRules>>

\* one importRules call
ImportRules(rulesJson) ==
    /\ \E result \in {importRules(rules, rulesJson)} :
           /\ rules' = result.registry
           /\ imported' = [called |-> TRUE, rulesJson |-> rulesJson, ok |-> result.ok,
                           before |-> rules, after |-> result.registry]
    /\ lastValidation' = NoCall
    /\ UNCHANGED <<ruleEdits, evidenceCounter, outsideImport>>

ToggleRule(ruleId, enabled) ==
    /\ ruleEdits < MaxRuleEdits
    /\ rules' = toggleRule(rules, ruleId, enabled)
    /\ ruleEdits' = ruleEdits + 1
    /\ lastValidation' = NoCall
    /\ UNCHANGED <<evidenceCounter, outsideRules>>

\* one validateTransaction call, from its entry to its return or rejection, on the
\* registry as it stands when the call is made (registry edits are made between calls)
ValidateTransaction(tx, ctx) ==
    /\ evidenceCounter < MaxEvidenceCounter
    /\ \E result \in {validateTransaction(rules, tx, ctx, evidenceCounter, now)} :
           /\ evidenceCounter' = result.counter
           /\ lastValidation' = [called |-> TRUE, tx |-> tx, ctx |-> ctx, registry |-> rules,
                                 thresholds |-> thresholds,
                                 threw |-> result.threw,
                                 alerts |-> result.alerts,
                                 evidence |-> result.evidence]
    /\ UNCHANGED <<rules, ruleEdits, outsideRules>>

\* validateTransaction called again and again on the running service; the call before
\* it on the same registry is kept next to the call
RepeatValidation(tx, ctx) ==
    /\ evidenceCounter < MaxRepeatCounter
    /\ \E result \in {validateTransaction(rules, tx, ctx, evidenceCounter, now)} :
           /\ evidenceCounter' = result.counter
           /\ lastValidation' = [called |-> TRUE, tx |-> tx, ctx |-> ctx, registry |-> rules,
                                 thresholds |-> thresholds,
                                 threw |-> result.threw,
                                 alerts |-> result.alerts,
                                 evidence |-> result.evidence,
                                 previous |->
                                     IF lastValidation.called
                                     THEN [called |-> TRUE, tx |-> lastValidation.tx,
                                           ctx |-> lastValidation.ctx,
                                           registry |-> lastValidation.registry,
                                           threw |-> lastValidation.threw,
                                           alerts |-> lastValidation.alerts,
                                           evidence |-> lastValidation.evidence]
                                     ELSE NoCall]
    /\ UNCHANGED <<rules, ruleEdits, outsideRules>>

\* updateThresholdsConfig: the updates are spread over the thresholds of the
\* configuration; the rules of the running ValidationService are left as they are
UpdateThresholdsConfig(updates) ==
    /\ thresholds' = updates @@ thresholds
    /\ UNCHANGED <<now, rulesVars, ledgerVars, alertVars, monitoring, imported, clusterDetection, auditVars, auditReadVars, cacheVars,
                   storeVars, trace>>

\* the thresholds an investigator sets
ThresholdUpdates ==
    { [largeTransferThreshold |-> 200 * Sol],
      [minimumTransferThreshold |-> 1],
      [largeTransferThreshold |-> LargeTransferThreshold,
       minimumTransferThreshold |-> MinimumTransferThreshold] }

NextRules ==
    \/ \E rule \in RulePool : AddRule(rule)
    \/ \E ruleId \in RuleIds(rules) : RemoveRule(ruleId)
    \/ \E ruleId \in RuleIds(rules), enabled \in BOOLEAN : ToggleRule(ruleId, enabled)
    \/ \E tx \in TxPool, ctx \in CtxPool : ValidateTransaction(tx, ctx)

\* the rule engine on transactions that form patterns with the recent ones
NextPatterns ==
    \/ \E ruleId \in {"fan_out_pattern", "circular_transfer"}, enabled \in BOOLEAN :
           ToggleRule(ruleId, enabled)
    \/ \E tx \in PatternTxPool, ctx \in PatternCtxPool : ValidateTransaction(tx, ctx)

\* the rule engine on transactions and recent transactions that lack a block time
NextWindows ==
    \/ Tick
    \/ \E ruleId \in {"fan_out_pattern", "wallet_clustering"}, enabled \in BOOLEAN :
           ToggleRule(ruleId, enabled)
    \/ \E tx \in WindowTxPool, ctx \in WindowCtxPool : ValidateTransaction(tx, ctx)

\* the texts handed to importRules: no JSON, JSON that is no list, lists of rules, a list
\* with a null in it, and what exportRules returns
ImportPool(registry) ==
    { InvalidJson, Obj(<<>>), Null, Arr(<<>>),
      exportRules(<<DefaultRules[1]>>),
      exportRules(<<DefaultRules[7], DefaultRules[6]>>),
      Arr(<<RuleToValue(DefaultRules[2]), Null>>),
      exportRules(registry) }

\* the registry edited, exported and imported
NextImport ==
    \/ \E ruleId \in {"large_transfer", "high_fee"} : RemoveRule(ruleId)
    \/ \E ruleId \in {"large_transfer", "high_fee"}, enabled \in BOOLEAN :
           ToggleRule(ruleId, enabled)
    \/ \E rulesJson \in ImportPool(rules) : ImportRules(rulesJson)

\* the rule engine called repeatedly, as time passes and rules are switched on and off
NextRepeat ==
    \/ Tick
    \/ \E ruleId \in {"large_transfer"}, enabled \in BOOLEAN : ToggleRule(ruleId, enabled)
    \/ \E tx \in TxPool, ctx \in CtxPool : RepeatValidation(tx, ctx)

\* the running rule engine while the thresholds of the configuration are edited
NextThresholds ==
    \/ \E updates \in ThresholdUpdates : UpdateThresholdsConfig(updates)
    \/ \E ruleId \in {"large_transfer", "high_fee"}, enabled \in BOOLEAN :
           ToggleRule(ruleId, enabled)
    \/ \E tx \in TxPool, ctx \in CtxPool : ValidateTransaction(tx, ctx)

(***************************************************************************)
(* ForensicsService: the evidence ledger                                   *)
(***************************************************************************)
MaxLedgerOps == 3   \* createEvidence, addChainOfCustodyEntry and metadata edits per run

RandomSuffixes == {"r1", "r2"}   \* Math.random().toString(36): never twice the same id

\* the `data` objects handed to createEvidence ({} from the dashboard form)
DataPool == {Obj(<<>>), Obj(<< <<"amount", Num(5)>> >>)}

EvidenceIds(store) == {store[i].id : i \in 1..Len(store)}

\* createEvidence up to `await calculateEvidenceHash`: the record, its hash being computed
NewEvidence(id, transactionId, evidenceType, description, data, investigator, time) ==
    [id |-> id,
     transactionId |-> transactionId,
     timestamp |-> Num(time),
     evidenceType |-> evidenceType,
     description |-> description,
     data |-> data,
     hash |-> EmptyHash,
     chainOfCustody |-> <<>>,
     metadata |-> [investigator |-> investigator, priority |-> "medium"]]

CustodyEntry(time, action, actor, description, hash) ==
    [timestamp |-> time, action |-> action, actor |-> actor,
     description |-> description, hash |-> hash]

\* createEvidence from the digest on: the hash is set and the 'created' entry pushed
\* before the record is put in the store
SealEvidence(evidence) ==
    LET hash == calculateEvidenceHash(evidence)
    IN  [evidence EXCEPT
            !.hash = hash,
            !.chainOfCustody = << CustodyEntry(evidence.timestamp.v, "created",
                                               evidence.metadata.investigator,
                                               "Evidence created", hash) >>]

\* an evidence ledger that appends by overwriting the custody list
addChainOfCustodyEntryOverwrite(store, evidenceId, custodyEntry) ==
    [i \in 1..Len(store) |->
        IF store[i].id = evidenceId
        THEN [store[i] EXCEPT !.chainOfCustody = <<custodyEntry>>]
        ELSE store[i]]

\* the evidenceStore.update of addChainOfCustodyEntry
addChainOfCustodyEntry(store, evidenceId, custodyEntry) ==
    [i \in 1..Len(store) |->
        IF store[i].id = evidenceId
        THEN [store[i] EXCEPT !.chainOfCustody = Append(store[i].chainOfCustody, custodyEntry)]
        ELSE store[i]]

NoExport == [called |-> FALSE]

\* the entries of the custody store that exportEvidence returns for an evidence record
exportedCustody(evidence, entries) ==
    SelectSeq(entries,
              LAMBDA entry : \E k \in 1..Len(evidence.chainOfCustody) :
                                 evidence.chainOfCustody[k].timestamp = entry.timestamp)

InitLedger ==
    /\ evidenceStore = <<>>
    /\ chainOfCustodyStore = <<>>
    /\ pendingEvidence = {}
    /\ ledgerOps = 0
    /\ custodyResult = "none"
    /\ exported = NoExport

CreateEvidenceBegin(transactionId, evidenceType, data, investigator, random) ==
    LET id == <<"EVID", now, random>>
    IN  /\ ledgerOps < MaxLedgerOps
        /\ ledgerOps' = ledgerOps + 1
        /\ id \notin EvidenceIds(evidenceStore) \cup {p.id : p \in pendingEvidence}
        /\ pendingEvidence' = pendingEvidence \cup
               {NewEvidence(id, transactionId, evidenceType, "created by investigator",
                            data, investigator, now)}
        /\ UNCHANGED <<outsideLedger, evidenceStore, chainOfCustodyStore, custodyResult, exported>>

\* the digest resolves
CreateEvidenceFinish(pending) ==
    LET evidence == SealEvidence(pending)
    IN  /\ pendingEvidence' = pendingEvidence \ {pending}
        /\ evidenceStore' = Append(evidenceStore, evidence)
        /\ chainOfCustodyStore' = Append(chainOfCustodyStore, evidence.chainOfCustody[1])
        /\ UNCHANGED <<outsideLedger, ledgerOps, custodyResult, exported>>

\* a ledger that looks the evidence up only after it has written the entry
AddChainOfCustodyEntryLateCheck(evidenceId, action, actor) ==
    LET found == SelectSeq(evidenceStore, LAMBDA e : e.id = evidenceId)
        custodyEntry == CustodyEntry(now, action, actor, "custody",
                                     IF found = <<>> THEN EmptyHash ELSE found[1].hash)
    IN  /\ ledgerOps < MaxLedgerOps
        /\ ledgerOps' = ledgerOps + 1
        /\ evidenceStore' = addChainOfCustodyEntry(evidenceStore, evidenceId, custodyEntry)
        /\ chainOfCustodyStore' = Append(chainOfCustodyStore, custodyEntry)
        /\ custodyResult' = IF found = <<>> THEN "not_found" ELSE "ok"
        /\ UNCHANGED <<outsideLedger, pendingEvidence, exported>>

\* addChainOfCustodyEntry: the error of an unknown id is thrown before anything is
\* written
AddChainOfCustodyEntry(evidenceId, action, actor) ==
    LET found == SelectSeq(evidenceStore, LAMBDA e : e.id = evidenceId)
    IN  /\ ledgerOps < MaxLedgerOps
        /\ ledgerOps' = ledgerOps + 1
        /\ IF found = <<>>
           THEN /\ custodyResult' = "not_found"
                /\ UNCHANGED <<outsideLedger, evidenceStore, chainOfCustodyStore,
                               pendingEvidence, exported>>
           ELSE LET custodyEntry == CustodyEntry(now, action, actor, "custody", found[1].hash)
                IN  /\ evidenceStore' = addChainOfCustodyEntry(evidenceStore, evidenceId,
                                                               custodyEntry)
                    /\ chainOfCustodyStore' = Append(chainOfCustodyStore, custodyEntry)
                    /\ custodyResult' = "ok"
                    /\ UNCHANGED <<outsideLedger, pendingEvidence, exported>>

\* the dashboard sets priority, tags and notes on the record createEvidence returned,
\* which is the record in the store
UpdateEvidenceMetadata(i, priority) ==
    /\ ledgerOps < MaxLedgerOps
    /\ ledgerOps' = ledgerOps + 1
    /\ evidenceStore' = [evidenceStore EXCEPT ![i].metadata.priority = priority]
    /\ UNCHANGED <<outsideLedger, chainOfCustodyStore, pendingEvidence, custodyResult, exported>>

\* exportEvidence(evidenceId): throws for an unknown id, else returns the record and the
\* entries of the custody store filtered by the timestamps of the record's entries
ExportEvidence(evidenceId) ==
    LET found == SelectSeq(evidenceStore, LAMBDA e : e.id = evidenceId)
    IN  /\ exported' = IF found = <<>>
                       THEN [called |-> TRUE, threw |-> TRUE, evidenceId |-> evidenceId]
                       ELSE [called |-> TRUE, threw |-> FALSE, evidenceId |-> evidenceId,
                             evidence |-> found[1],
                             chainOfCustody |->
                                 exportedCustody(found[1], chainOfCustodyStore),
                             exportTimestamp |-> now]
        /\ UNCHANGED <<outsideLedger, evidenceStore, chainOfCustodyStore, pendingEvidence,
                       ledgerOps, custodyResult>>

NextLedger ==
    \/ Tick
    \/ \E transactionId \in {"t150"}, evidenceType \in {"large_transfer"},
          data \in DataPool, investigator \in {"alice"}, random \in RandomSuffixes :
           CreateEvidenceBegin(transactionId, evidenceType, data, investigator, random)
    \/ \E pending \in pendingEvidence : CreateEvidenceFinish(pending)
    \/ \E evidenceId \in EvidenceIds(evidenceStore) \cup {<<"EVID", 0, "unknown">>},
          action \in {"accessed", "modified", "transferred"}, actor \in {"bob"} :
           AddChainOfCustodyEntry(evidenceId, action, actor)
    \/ \E i \in 1..Len(evidenceStore), priority \in {"high"} :
           UpdateEvidenceMetadata(i, priority)

\* the ledger of several records, with exports
NextExport ==
    \/ Tick
    \/ \E transactionId \in {"t150"}, evidenceType \in {"large_transfer"},
          data \in {Obj(<<>>)}, investigator \in {"alice"}, random \in RandomSuffixes :
           CreateEvidenceBegin(transactionId, evidenceType, data, investigator, random)
    \/ \E pending \in pendingEvidence : CreateEvidenceFinish(pending)
    \/ \E evidenceId \in EvidenceIds(evidenceStore), action \in {"accessed"},
          actor \in {"bob"} :
           AddChainOfCustodyEntry(evidenceId, action, actor)
    \/ \E evidenceId \in EvidenceIds(evidenceStore) \cup {<<"EVID", 0, "unknown">>} :
           ExportEvidence(evidenceId)

(***************************************************************************)
(* ForensicsService: alerts and their notifications                        *)
(***************************************************************************)
MaxAlerts == 2           \* createAlert calls per run

ForensicsAlert(id, timestamp, severity, type, transactionId) ==
    [id |-> id, timestamp |-> timestamp, severity |-> severity, type |-> type,
     transactionId |-> transactionId, status |-> "new", notifications |-> <<>>]

NotificationLog(timestamp, method) ==
    [timestamp |-> timestamp, method |-> method, recipient |-> "investigator@forensics.com",
     status |-> "sent", response |-> "Notification sent successfully"]

getNotificationMethods(severity) ==
    CASE severity = "emergency" -> <<"desktop", "email", "webhook", "sms">>
      [] severity = "critical" -> <<"desktop", "email", "webhook">>
      [] severity = "warning" -> <<"desktop", "email">>
      [] severity = "info" -> <<"desktop">>
      [] OTHER -> <<"desktop">>

\* alertsStore.update of sendNotification: the entry is appended to every alert of the id
sendNotification(alerts, alertId, method, timestamp) ==
    [i \in 1..Len(alerts) |->
        IF alerts[i].id = alertId
        THEN [alerts[i] EXCEPT !.notifications = Append(@, NotificationLog(timestamp, method))]
        ELSE alerts[i]]

InitAlerts ==
    /\ forensicAlertsStore = <<>>
    /\ alertCalls = {}

\* createAlert up to its first `await`. generateAlertId: the time and 11 characters of
\* Math.random(), which no other alert of the run has drawn
CreateAlert(severity, type, transactionId, random) ==
    /\ Cardinality(alertCalls) < MaxAlerts
    /\ \A i \in 1..Len(forensicAlertsStore) : forensicAlertsStore[i].id[3] # random
    /\ LET id == <<"ALERT", now, random>>
       IN  /\ forensicAlertsStore' =
                  Append(forensicAlertsStore,
                         ForensicsAlert(id, now, severity, type, transactionId))
           /\ alertCalls' = alertCalls \cup
                  {[id |-> id, methods |-> getNotificationMethods(severity), threw |-> {},
                    returned |-> FALSE]}
    /\ UNCHANGED outsideAlerts

\* one round of the loop of sendAlertNotifications: sendNotification writes the entry of
\* the channel to the store; a subscriber of the store may throw after the write, which the
\* loop catches
SendAlertNotification(call, subscriberThrows) ==
    /\ ~call.returned
    /\ call.methods # <<>>
    /\ forensicAlertsStore' =
           sendNotification(forensicAlertsStore, call.id, Head(call.methods), now)
    /\ alertCalls' = (alertCalls \ {call}) \cup
           {[call EXCEPT !.methods = Tail(@),
                         !.threw = IF subscriberThrows THEN @ \cup {Head(call.methods)}
                                   ELSE @]}
    /\ UNCHANGED outsideAlerts

\* createAlert returns the alert
CreateAlertReturn(call) ==
    /\ ~call.returned
    /\ call.methods = <<>>
    /\ alertCalls' = (alertCalls \ {call}) \cup {[call EXCEPT !.returned = TRUE]}
    /\ UNCHANGED <<forensicAlertsStore, outsideAlerts>>

\* updateAlertStatus(alertId, status) without a resolution
UpdateAlertStatus(alertId, status) ==
    /\ \E i \in 1..Len(forensicAlertsStore) :
           forensicAlertsStore[i].id = alertId /\ forensicAlertsStore[i].status # status
    /\ forensicAlertsStore' =
           [i \in 1..Len(forensicAlertsStore) |->
               IF forensicAlertsStore[i].id = alertId
               THEN [forensicAlertsStore[i] EXCEPT !.status = status]
               ELSE forensicAlertsStore[i]]
    /\ UNCHANGED <<alertCalls, outsideAlerts>>

NextAlerts ==
    \/ \E severity \in {"emergency", "critical", "warning", "info"},
          random \in {"a1", "a2"} :
           CreateAlert(severity, "large_transfer", "t150", random)
    \/ \E call \in alertCalls, subscriberThrows \in BOOLEAN :
           SendAlertNotification(call, subscriberThrows)
    \/ \E call \in alertCalls : CreateAlertReturn(call)
    \/ \E alertId \in {forensicAlertsStore[i].id : i \in 1..Len(forensicAlertsStore)} :
           UpdateAlertStatus(alertId, "acknowledged")

(***************************************************************************)
(* AuditService: the audit log                                             *)
(***************************************************************************)
MaxAuditReports == 1      \* generateAuditReport calls per run
MaxAuditLog == 2          \* logEvent calls per run, nested ones included
DefaultRetentionDays == 2555

AuditEntry(id, action, resource, resourceId, actor, details, time) ==
    [id |-> id, action |-> action, resource |-> resource, resourceId |-> resourceId,
     actor |-> actor, details |-> details, timestamp |-> time, hash |-> EmptyHash]

AuditDetails(riskLevel, unusualTime) == [riskLevel |-> riskLevel, unusualTime |-> unusualTime]

calculateAuditHash(auditLog) ==
    Sha256(JsonStringify(Obj(<< <<"id", Str(auditLog.id)>>,
                                <<"action", Str(auditLog.action)>>,
                                <<"resource", Str(auditLog.resource)>>,
                                <<"resourceId", Str(auditLog.resourceId)>>,
                                <<"actor", Str(auditLog.actor)>>,
                                <<"details",
                                  Obj(<< <<"riskLevel", Str(auditLog.details.riskLevel)>>,
                                         <<"metadata",
                                           Obj(<< <<"unusualTime",
                                                    Bool(auditLog.details.unusualTime)>> >>)>> >>)>>,
                                <<"timestamp", Num(auditLog.timestamp)>>,
                                <<"ipAddress", Undefined>>,
                                <<"userAgent", Undefined>>,
                                <<"sessionId", Undefined>> >>)))

\* checkSecurityViolations: violations.length > 0
HasViolations(auditLog) ==
    \/ auditLog.action = "security_violation"
    \/ auditLog.details.riskLevel = "critical"
    \/ auditLog.action = "evidence_accessed" /\ auditLog.details.unusualTime

\* the entry checkSecurityViolations hands to logEvent
ViolationEntry(id, auditLog, time) ==
    AuditEntry(id, "security_violation", "audit_system", auditLog.id, "system",
               AuditDetails("critical", FALSE), time)

\* a log capped by count: the oldest entry goes when a second one is there
cleanupOldLogsByCount(logs, days, time) == IF Len(logs) > 1 THEN Tail(logs) ELSE logs

\* cleanupOldLogs, with the retention period and the clock counted in days
cleanupOldLogs(logs, days, time) ==
    SelectSeq(logs, LAMBDA log : log.timestamp > time - days)

\* cleanupOldLogs run once by each of n returning calls
RECURSIVE CleanupTimes(_, _, _, _)
CleanupTimes(n, logs, days, time) ==
    IF n = 0 THEN logs ELSE CleanupTimes(n - 1, cleanupOldLogs(logs, days, time), days, time)

InitAudit ==
    /\ auditLogs = <<>>
    /\ isLoggingEnabled = TRUE
    /\ retentionDays = DefaultRetentionDays
    /\ auditCalls = {}
    /\ auditCounter = 0
    /\ auditReturned = {}
    /\ auditReports = <<>>
    /\ auditRead = NoRead

\* logEvent up to `await calculateAuditHash`; with logging off it returns {} at once
LogEventBegin(action, resourceId, actor, details) ==
    /\ auditCounter < MaxAuditLog
    /\ auditCounter' = auditCounter + 1
    /\ auditReturned' = {}
    /\ IF ~isLoggingEnabled
       THEN UNCHANGED auditCalls
       ELSE auditCalls' = auditCalls \cup
                {<< AuditEntry(<<"AUDIT", auditCounter + 1>>, action, "evidence",
                               resourceId, actor, details, now) >>}
    /\ auditRead' = NoRead
    /\ UNCHANGED <<auditLogs, isLoggingEnabled, retentionDays, auditReports,
                   outsideAudit>>

\* the digest of the innermost logEvent of a call resolves: the entry is stored and
\* checked.  An entry with violations starts a logEvent for them, which waits for its
\* own digest, or with logging off returns {} at once; then, as for an entry without
\* violations, every logEvent of the call cleans up and returns.
LogEventHashed(call) ==
    LET pending == call[Len(call)]
        auditLog == [pending EXCEPT !.hash = calculateAuditHash(pending)]
        stored == Append(auditLogs, auditLog)
        stack == [call EXCEPT ![Len(call)] = auditLog]
    IN  IF HasViolations(auditLog) /\ isLoggingEnabled
        THEN /\ auditCounter < MaxAuditLog
             /\ auditCounter' = auditCounter + 1
             /\ auditLogs' = stored
             /\ auditCalls' = (auditCalls \ {call}) \cup
                    {Append(stack, ViolationEntry(<<"AUDIT", auditCounter + 1>>,
                                                  auditLog, now))}
             /\ auditReturned' = {}
             /\ auditRead' = NoRead
             /\ UNCHANGED <<isLoggingEnabled, retentionDays, auditReports,
                            outsideAudit>>
        ELSE /\ auditLogs' = CleanupTimes(Len(stack), stored, retentionDays, now)
             /\ auditCalls' = auditCalls \ {call}
             /\ auditReturned' = SeqToSet(stack)
             /\ auditRead' = NoRead
             /\ UNCHANGED <<auditCounter, isLoggingEnabled, retentionDays, auditReports,
                            outsideAudit>>

\* an AuditFilter: 0 and "" stand for a field left out, which the code tests by
\* falsiness
AuditFilter(startDate, endDate, actor, action, resource, riskLevel, offset, limit) ==
    [startDate |-> startDate, endDate |-> endDate, actor |-> actor, action |-> action,
     resource |-> resource, riskLevel |-> riskLevel, offset |-> offset, limit |-> limit]

Period(startDate, endDate, limit) == AuditFilter(startDate, endDate, "", "", "", "", 0, limit)

\* slice(offset) and slice(0, limit)
SliceFrom(s, offset) == IF offset >= Len(s) THEN <<>> ELSE SubSeq(s, offset + 1, Len(s))
SliceTo(s, limit) == IF limit >= Len(s) THEN s ELSE SubSeq(s, 1, limit)

\* getAuditLogs: the entries of the store that pass the filter, then the page asked for
getAuditLogs(logs, filter) ==
    LET passes(log) ==
            /\ filter.startDate # 0 => log.timestamp >= filter.startDate
            /\ filter.endDate # 0 => log.timestamp <= filter.endDate
            /\ filter.actor # "" => log.actor = filter.actor
            /\ filter.action # "" => log.action = filter.action
            /\ filter.resource # "" => log.resource = filter.resource
            /\ filter.riskLevel # "" => log.details.riskLevel = filter.riskLevel
        filteredLogs == SelectSeq(logs, passes)
        fromOffset == IF filter.offset # 0 THEN SliceFrom(filteredLogs, filter.offset)
                      ELSE filteredLogs
    IN  IF filter.limit # 0 THEN SliceTo(fromOffset, filter.limit) ELSE fromOffset

\* one getAuditLogs call
GetAuditLogs(filter) ==
    /\ auditRead' = [op |-> "getAuditLogs", logs |-> getAuditLogs(auditLogs, filter)]
    /\ UNCHANGED <<auditReports, auditVars, outsideAudit>>

\* generateAuditReport: the report on the entries of a period is stored and returned
GenerateAuditReport(generatedBy, startDate, endDate) ==
    /\ Len(auditReports) < MaxAuditReports
    /\ \E report \in {[id |-> <<"REPORT", now, Len(auditReports) + 1>>,
                        generatedAt |-> now,
                        generatedBy |-> generatedBy,
                        period |-> [start |-> startDate, end |-> endDate],
                        details |-> getAuditLogs(auditLogs,
                                                 Period(startDate, endDate, 10000))]} :
           /\ auditReports' = Append(auditReports, report)
           /\ auditRead' = [op |-> "generateAuditReport", logs |-> report.details]
    /\ UNCHANGED <<auditVars, outsideAudit>>

\* exportAuditLogs: the entries of a period, serialised in the format asked for
ExportAuditLogs(startDate, endDate, format) ==
    /\ auditRead' = [op |-> "exportAuditLogs",
                     logs |-> getAuditLogs(auditLogs, Period(startDate, endDate, 100000)),
                     format |-> format,
                     exportTimestamp |-> now]
    /\ UNCHANGED <<auditReports, auditVars, outsideAudit>>

SetLoggingEnabled(enabled) ==
    /\ isLoggingEnabled' = enabled
    /\ auditReturned' = {}
    /\ auditRead' = NoRead
    /\ UNCHANGED <<auditLogs, retentionDays, auditCalls, auditCounter, auditReports,
                   outsideAudit>>

SetRetentionDays(days) ==
    /\ retentionDays' = days
    /\ auditReturned' = {}
    /\ auditRead' = NoRead
    /\ UNCHANGED <<auditLogs, isLoggingEnabled, auditCalls, auditCounter, auditReports,
                   outsideAudit>>

\* the events logged: <<action, details.riskLevel, details.metadata.unusualTime>>
AuditEventPool ==
    { <<"login", "low", FALSE>>,
      <<"evidence_accessed", "low", TRUE>>,
      <<"evidence_created", "critical", FALSE>>,
      <<"security_violation", "high", FALSE>> }

\* the filters of the getAuditLogs calls
AuditFilterPool ==
    { AuditFilter(0, 0, "", "", "", "", 0, 0),
      AuditFilter(0, MaxTime, "alice", "evidence_created", "evidence", "critical", 1, 1) }

NextAudit ==
    \/ Tick
    \/ \E event \in AuditEventPool :
           LogEventBegin(event[1], <<"EVID", 1>>, "alice", AuditDetails(event[2], event[3]))
    \/ \E call \in auditCalls : LogEventHashed(call)
    \/ \E enabled \in BOOLEAN : SetLoggingEnabled(enabled)
    \/ \E days \in {1, DefaultRetentionDays} : SetRetentionDays(days)

\* the audit log written, pruned and read
NextAuditLog ==
    \/ Tick
    \/ \E event \in {<<"login", "low", FALSE>>, <<"evidence_created", "critical", FALSE>>} :
           LogEventBegin(event[1], <<"EVID", 1>>, "alice", AuditDetails(event[2], event[3]))
    \/ \E call \in auditCalls : LogEventHashed(call)
    \/ \E days \in {1, DefaultRetentionDays} : SetRetentionDays(days)
    \/ \E filter \in AuditFilterPool : GetAuditLogs(filter)
    \/ \E period \in {<<0, 0>>} : GenerateAuditReport("alice", period[1], period[2])
    \/ \E period \in {<<0, 0>>, <<MaxTime, MaxTime>>}, format \in {"json"} :
           ExportAuditLogs(period[1], period[2], format)

(***************************************************************************)
(* SolanaService: the recent-transaction cache                             *)
(***************************************************************************)
transactionCacheSize == 2   \* monitoring.transactionCacheSize as configured for the run
MaxAnalyses == 2            \* analyzeTransactionWithRules calls per run

Signatures == {"s1", "s2", "s3"}

\* the signatures of a set, as the list an RPC call returns
RECURSIVE SetToSeq(_)
SetToSeq(S) ==
    IF S = {} THEN <<>>
    ELSE LET x == CHOOSE y \in S : TRUE IN <<x>> \o SetToSeq(S \ {x})

\* Map.set: a new key goes last, a key already present keeps its place
CacheSet(cache, signature) ==
    IF signature \in SeqToSet(cache) THEN cache ELSE Append(cache, signature)

\* the eviction after the first set: one key, the oldest, when the size is exceeded
EvictOldest(cache) ==
    IF Len(cache) > transactionCacheSize THEN Tail(cache) ELSE cache

\* the context loop, from one signature to the next it has to fetch: the analysed
\* transaction itself and the signatures found in the cache need no fetch
RECURSIVE NextToFetch(_, _, _)
NextToFetch(signatures, own, cache) ==
    IF signatures = <<>> THEN <<>>
    ELSE IF Head(signatures) = own \/ Head(signatures) \in SeqToSet(cache)
         THEN NextToFetch(Tail(signatures), own, cache)
         ELSE signatures

\* filter((tx, index, self) => index === self.findIndex(t => t.signature === tx.signature))
RECURSIVE UniqueBySignature(_, _)
UniqueBySignature(txs, seen) ==
    IF txs = <<>> THEN <<>>
    ELSE IF Head(txs).signature \in seen
         THEN UniqueBySignature(Tail(txs), seen)
         ELSE <<Head(txs)>> \o UniqueBySignature(Tail(txs), seen \cup {Head(txs).signature})

FirstN(s, n) == IF Len(s) <= n THEN s ELSE SubSeq(s, 1, n)

\* sort((a, b) => (b.slot || 0) - (a.slot || 0)), which keeps the order of equal slots
RECURSIVE SortBySlotDescending(_)
SortBySlotDescending(txs) ==
    IF txs = <<>> THEN <<>>
    ELSE LET rest == SortBySlotDescending(Tail(txs))
             before == SelectSeq(rest, LAMBDA tx : tx.slot > Head(txs).slot)
             after == SelectSeq(rest, LAMBDA tx : tx.slot <= Head(txs).slot)
         IN  before \o <<Head(txs)>> \o after

recentTransactionLimit == 15      \* monitoring.recentTransactionLimit
AlertSuffixes == {"a1", "a2"}     \* Math.random().toString(36).substr(2, 9)

\* getTransactionDetails(signature): what the chain holds under a signature never changes
DetailsOf(signature) ==
    CASE signature = "s1" ->
            Transfer("s1", 21, 1000, NormalFee, "success", "A", "B", 150 * Sol)
      [] signature = "s2" ->
            Transfer("s2", 22, 1010, NormalFee, "success", "A", "C", Sol)
      [] OTHER ->
            Transfer("s3", 23, 1020, NormalFee, "success", "A", "D", Sol)

DetailsOfAll(signatures) == [i \in 1..Len(signatures) |-> DetailsOf(signatures[i])]

HasBalanceChanges(signature) == Len(DetailsOf(signature).balanceChanges) > 0

\* the signatures the context loop pushes on recentTransactions on its way from
\* `signatures` to its next fetch `rest`: those it found in the cache
PushedFromCache(signatures, rest, own) ==
    SelectSeq(SubSeq(signatures, 1, Len(signatures) - Len(rest)),
              LAMBDA sig : sig # own /\ HasBalanceChanges(sig))

\* the context handed to validateTransaction: the transactions the loop collected and
\* those of the cache, once each, latest slot first
AnalysisContext(own, recentTransactions, cache) ==
    LET cachedTransactions ==
            FirstN(SortBySlotDescending(
                       DetailsOfAll(SelectSeq(cache, LAMBDA sig : /\ sig # own
                                                                  /\ HasBalanceChanges(sig)))),
                   recentTransactionLimit)
    IN  [walletAddress |-> "A",
         recentTransactions |->
             FirstN(SortBySlotDescending(
                        UniqueBySignature(DetailsOfAll(recentTransactions)
                                              \o cachedTransactions, {})),
                    recentTransactionLimit),
         accountBalance |-> 0]

\* the timestamp of a store entry: the block time if it is less than a day old
StoreTimestamp(tx, time) ==
    IF tx.blockTime # 0 /\ tx.blockTime > time * 86400 - 86400
    THEN tx.blockTime ELSE time * 86400

\* alerts.map: the alert of the rule engine under a new id
RealAlert(alert, tx, time, random) ==
    [id |-> <<"real", time, random>>,
     timestamp |-> StoreTimestamp(tx, time),
     severity |-> alert.severity,
     type |-> alert.type,
     evidence |-> alert.evidence,
     status |-> "active",
     transactionSignature |-> tx.signature]

\* transactionsStore.update: an id already in the store is not added again
UpdateTransactionsStore(store, id) ==
    IF id \in SeqToSet(store) THEN store ELSE Append(store, id)

\* alertsStore.update: the alerts whose id is not in the store yet are appended
UpdateAlertsStore(store, alerts) ==
    store \o SelectSeq(alerts, LAMBDA a : a.id \notin {store[i].id : i \in 1..Len(store)})

\* the context loop from `signatures` on, up to the next getTransactionDetails it awaits
ContextLoop(analysis, signatures, cache) ==
    [analysis EXCEPT
        !.toFetch = NextToFetch(signatures, analysis.signature, cache),
        !.recentTransactions =
            @ \o PushedFromCache(signatures,
                                 NextToFetch(signatures, analysis.signature, cache),
                                 analysis.signature)]

InitCache ==
    /\ transactionCache = <<>>
    /\ analyses = {}
    /\ analysesStarted = 0
    /\ transactionsStore = <<>>
    /\ alertsStore = <<>>
    /\ validated = <<>>

\* analyzeTransactionWithRules, called by the subscription callback or by the polling
\* loop, up to `await getRecentTransactions`
AnalyzeBegin(caller, signature) ==
    /\ analysesStarted < MaxAnalyses
    /\ analysesStarted' = analysesStarted + 1
    /\ transactionCache' = EvictOldest(CacheSet(transactionCache, signature))
    /\ analyses' = analyses \cup
           {[call |-> analysesStarted + 1, signature |-> signature,
             stage |-> "recent", toFetch |-> <<>>, recentTransactions |-> <<>>]}
    /\ UNCHANGED <<storeVars, outsideCache>>

\* the recent signatures arrive (or the RPC call fails, which ends the analysis in its
\* catch); the loop runs up to the first getTransactionDetails it awaits
AnalyzeRecent(analysis, failed, recent) ==
    /\ analysis.stage = "recent"
    /\ analyses' = IF failed
                   THEN analyses \ {analysis}
                   ELSE (analyses \ {analysis}) \cup
                        {ContextLoop([analysis EXCEPT !.stage = "context"],
                                     SetToSeq(recent), transactionCache)}
    /\ UNCHANGED <<transactionCache, analysesStarted, storeVars, outsideCache>>

\* getTransactionDetails returns for the signature the loop waits on: details with
\* balance changes are put in the cache; without them, or on an error, nothing is;
\* the loop runs on to its next fetch
AnalyzeContext(analysis, outcome) ==
    /\ analysis.stage = "context"
    /\ analysis.toFetch # <<>>
    /\ LET fetched == Head(analysis.toFetch)
           kept == outcome = "details" /\ HasBalanceChanges(fetched)
           cache == IF kept THEN CacheSet(transactionCache, fetched) ELSE transactionCache
       IN  /\ transactionCache' = cache
           /\ analyses' = (analyses \ {analysis}) \cup
                  {ContextLoop([analysis EXCEPT
                                   !.recentTransactions =
                                       IF kept THEN Append(@, fetched) ELSE @],
                               Tail(analysis.toFetch), cache)}
    /\ UNCHANGED <<analysesStarted, storeVars, outsideCache>>

\* the context is complete: the transaction is validated, and if the rule engine
\* returns it is published with its alerts, each under an id of its own
AnalyzeFinish(analysis) ==
    /\ analysis.stage = "context"
    /\ analysis.toFetch = <<>>
    /\ analyses' = analyses \ {analysis}
    /\ validated' = Append(validated, analysis.signature)
    /\ \E violations \in {validateTransaction(
                               rules, DetailsOf(analysis.signature),
                               AnalysisContext(analysis.signature,
                                               analysis.recentTransactions,
                                               transactionCache),
                               evidenceCounter, now)} :
       \E random \in [1..Len(violations.alerts) -> AlertSuffixes] :
           /\ evidenceCounter' = violations.counter
           /\ lastValidation' =
                  [called |-> TRUE, tx |-> DetailsOf(analysis.signature),
                   ctx |-> AnalysisContext(analysis.signature, analysis.recentTransactions,
                                           transactionCache),
                   registry |-> rules, thresholds |-> thresholds,
                   threw |-> violations.threw,
                   alerts |-> violations.alerts, evidence |-> violations.evidence]
           /\ transactionsStore' =
                  IF violations.threw THEN transactionsStore
                  ELSE UpdateTransactionsStore(transactionsStore,
                                               <<"tx", analysis.signature>>)
           /\ alertsStore' =
                  IF violations.threw THEN alertsStore
                  ELSE UpdateAlertsStore(
                           alertsStore,
                           [i \in 1..Len(violations.alerts) |->
                               RealAlert(violations.alerts[i],
                                         DetailsOf(analysis.signature), now,
                                         random[i])])
    /\ UNCHANGED <<transactionCache, analysesStarted, now, thresholds, rules, ruleEdits,
                   ledgerVars, alertVars, monitoring, imported, clusterDetection, auditVars, auditReadVars, trace>>

\* cleanup
ClearCache ==
    /\ transactionCache # <<>>
    /\ transactionCache' = <<>>
    /\ UNCHANGED <<analyses, analysesStarted, storeVars, outsideCache>>

NextCache ==
    \/ \E caller \in {"subscription", "polling"}, signature \in Signatures :
           AnalyzeBegin(caller, signature)
    \/ \E analysis \in analyses, failed \in BOOLEAN, recent \in SUBSET Signatures :
           AnalyzeRecent(analysis, failed, recent)
    \/ \E analysis \in analyses, outcome \in {"details", "empty", "error"} :
           AnalyzeContext(analysis, outcome)
    \/ \E analysis \in analyses : AnalyzeFinish(analysis)
    \/ ClearCache

(***************************************************************************)
(* SolanaService: the cluster of the RPC endpoint                          *)
(***************************************************************************)
\* RPC URLs, each as the sequence of the parts that the patterns of the code are matched
\* against
UrlPool ==
    { <<"http://", "localhost", ":8899">>,
      <<"http://", "127.0.0.1", ":8899">>,
      <<"http://", "192.168.", "1.100", ":8899">>,
      <<"http://", "localhost", ":8899/", "testnet">>,
      <<"https://", "api.", "devnet", ".solana.com">>,
      <<"https://", "api.", "testnet", ".solana.com">>,
      <<"https://", "api.", "mainnet", "-beta", ".solana.com">>,
      <<"https://", "mainnet", ".", "helius", "-rpc.com">>,
      <<"https://", "devnet", ".", "helius", "-rpc.com">>,
      <<"https://", "rpc.", "helius", ".xyz">>,
      <<"https://", "rpc.example.org">>,
      <<"https://", "node-", "172.", "example.org">> }

DevnetGenesis == "EtWTRABZaYq6iMfeYKouRu166VU2xqa1wcaWoxPkrZBG"
TestnetGenesis == "4uhcVJyU9pJkvQyS88uRDiswHXSCkY3zQawwpjk2NsNY"
MainnetGenesis == "5eykt4UsFv8P8NJdTREpY1vzqKqZKvdpKuc147dw2N9d"

\* what getGenesisHash may answer: a hash, or "failed" when the query throws
GenesisPool == {DevnetGenesis, TestnetGenesis, MainnetGenesis, "unknown-genesis-hash", "failed"}

MainnetLikeSupply == 500   \* 500_000_000_000_000 lamports, in units of 10^12
MainnetLikeEpoch == 1000

\* what getVersion, getEpochInfo and getSupply may answer: they throw, or a total supply
\* and an epoch
NetworkPool ==
    {[failed |-> TRUE]}
    \cup [failed : {FALSE},
          totalSupply : {1, MainnetLikeSupply, MainnetLikeSupply + 1},
          epoch : {MainnetLikeEpoch, MainnetLikeEpoch + 1}]

isLocalRpc(rpcUrl) ==
    \E pattern \in {"localhost", "127.0.0.1", "192.168.", "10.0.", "172.", "::1", "0.0.0.0"} :
        Includes(rpcUrl, <<pattern>>)

determineCluster(rpcUrl) ==
    IF isLocalRpc(rpcUrl) THEN "devnet"
    ELSE IF Includes(rpcUrl, <<"devnet">>) THEN "devnet"
    ELSE IF Includes(rpcUrl, <<"testnet">>) THEN "testnet"
    ELSE IF Includes(rpcUrl, <<"mainnet">>) \/ Includes(rpcUrl, <<"api.", "mainnet", "-beta">>)
         THEN "mainnet-beta"
    ELSE IF Includes(rpcUrl, <<"helius">>)
         THEN (IF Includes(rpcUrl, <<"devnet">>) THEN "devnet" ELSE "mainnet-beta")
    ELSE "mainnet-beta"

analyzeCustomNetwork(network, rpcUrl) ==
    IF network.failed THEN determineCluster(rpcUrl)
    ELSE IF isLocalRpc(rpcUrl) THEN "devnet"
    ELSE IF network.totalSupply > MainnetLikeSupply THEN "mainnet-beta"
    ELSE IF network.epoch > MainnetLikeEpoch THEN "mainnet-beta"
    ELSE "devnet"

InitCluster == clusterDetection = [status |-> "idle"]

\* determineClusterDynamic(rpcUrl) up to the answer of getGenesisHash: it returns for a
\* known hash and for a failed query, and goes on to analyzeCustomNetwork otherwise
DetermineClusterDynamic(rpcUrl, genesisHash) ==
    /\ clusterDetection.status # "analysing"
    /\ clusterDetection' =
           IF genesisHash = "failed"
           THEN [status |-> "done", rpcUrl |-> rpcUrl, genesisHash |-> genesisHash,
                 cluster |-> determineCluster(rpcUrl)]
           ELSE IF genesisHash = DevnetGenesis
           THEN [status |-> "done", rpcUrl |-> rpcUrl, genesisHash |-> genesisHash,
                 cluster |-> "devnet"]
           ELSE IF genesisHash = TestnetGenesis
           THEN [status |-> "done", rpcUrl |-> rpcUrl, genesisHash |-> genesisHash,
                 cluster |-> "testnet"]
           ELSE IF genesisHash = MainnetGenesis
           THEN [status |-> "done", rpcUrl |-> rpcUrl, genesisHash |-> genesisHash,
                 cluster |-> "mainnet-beta"]
           ELSE [status |-> "analysing", rpcUrl |-> rpcUrl, genesisHash |-> genesisHash]
    /\ UNCHANGED outsideCluster

\* analyzeCustomNetwork returns, and determineClusterDynamic with it
AnalyzeCustomNetwork(network) ==
    /\ clusterDetection.status = "analysing"
    /\ clusterDetection' =
           [status |-> "done", rpcUrl |-> clusterDetection.rpcUrl,
            genesisHash |-> clusterDetection.genesisHash, network |-> network,
            cluster |-> analyzeCustomNetwork(network, clusterDetection.rpcUrl)]
    /\ UNCHANGED outsideCluster

NextCluster ==
    \/ \E rpcUrl \in UrlPool, genesisHash \in GenesisPool :
           DetermineClusterDynamic(rpcUrl, genesisHash)
    \/ \E network \in NetworkPool : AnalyzeCustomNetwork(network)

(***************************************************************************)
(* SolanaService: starting and stopping the monitoring                     *)
(***************************************************************************)
MaxStarts == 2           \* startMonitoring calls per run

NoTimer == 0             \* monitoringInterval = null
NoSubscription == 0      \* the subscriptions Map has no entry for the monitored wallet

InitMonitoring ==
    monitoring = [timers |-> {}, monitoringInterval |-> NoTimer, listeners |-> {},
                  subscriptions |-> NoSubscription, setups |-> {}, starts |-> 0,
                  cleanup |-> "none"]

\* startMonitoring(rules) for the monitored wallet: startTransactionMonitoring is called
\* without await and runs up to its first await, then the two stores are emptied
StartMonitoring ==
    /\ monitoring.starts < MaxStarts
    /\ monitoring.cleanup = "none"
    /\ monitoring' = [monitoring EXCEPT
                        !.starts = @ + 1,
                        !.setups = @ \cup {[id |-> monitoring.starts + 1,
                                            stage |-> "subscribe"]}]
    /\ alertsStore' = <<>>
    /\ transactionsStore' = <<>>
    /\ UNCHANGED <<validated, cacheVars, outsideMonitoring>>

\* startTransactionMonitoring from the configuration import on: monitorAccount registers
\* the account listener and sets the entry of the wallet in the subscriptions Map, or
\* throws; either way startPollingForTransactions is called and awaits its import
SetupSubscribe(setup, failed) ==
    /\ setup.stage = "subscribe"
    /\ monitoring' = [monitoring EXCEPT
                        !.listeners = IF failed THEN @ ELSE @ \cup {setup.id},
                        !.subscriptions = IF failed THEN @ ELSE setup.id,
                        !.setups = (@ \ {setup}) \cup {[setup EXCEPT !.stage = "poll"]}]
    /\ UNCHANGED <<storeVars, cacheVars, outsideMonitoring>>

\* startPollingForTransactions from the configuration import on:
\* this.monitoringInterval = setInterval(pollLoop, pollInterval)
SetupPoll(setup) ==
    /\ setup.stage = "poll"
    /\ monitoring' = [monitoring EXCEPT
                        !.timers = @ \cup {setup.id},
                        !.monitoringInterval = setup.id,
                        !.setups = @ \ {setup}]
    /\ UNCHANGED <<storeVars, cacheVars, outsideMonitoring>>

\* disconnect(): clearInterval(monitoringInterval), then cleanup() without await, which
\* runs stopAllMonitoring up to its first await: the listener of the subscriptions Map
\* is removed
Disconnect ==
    /\ monitoring.cleanup = "none"
    /\ monitoring' = [monitoring EXCEPT
                        !.timers = @ \ {monitoring.monitoringInterval},
                        !.monitoringInterval = NoTimer,
                        !.listeners = @ \ {monitoring.subscriptions},
                        !.cleanup = "stopping"]
    /\ UNCHANGED <<storeVars, cacheVars, outsideMonitoring>>

\* the rest of stopAllMonitoring and of cleanup: subscriptions.clear(), and the
\* transaction cache is cleared
DisconnectFinish ==
    /\ monitoring.cleanup = "stopping"
    /\ monitoring' = [monitoring EXCEPT !.subscriptions = NoSubscription,
                                        !.cleanup = "done"]
    /\ transactionCache' = <<>>
    /\ UNCHANGED <<analyses, analysesStarted, storeVars, outsideMonitoring>>

\* a polling timer fires: pollLoop calls analyzeTransactionWithRules
PollLoop(timer, signature) ==
    /\ timer \in monitoring.timers
    /\ AnalyzeBegin("polling", signature)

\* an account listener fires: onAccountChange calls analyzeTransactionWithRules
OnAccountChange(listener, signature) ==
    /\ listener \in monitoring.listeners
    /\ AnalyzeBegin("subscription", signature)

NextMonitoring ==
    \/ StartMonitoring
    \/ \E setup \in monitoring.setups, failed \in BOOLEAN : SetupSubscribe(setup, failed)
    \/ \E setup \in monitoring.setups : SetupPoll(setup)
    \/ Disconnect
    \/ DisconnectFinish
    \/ \E timer \in monitoring.timers, signature \in {"s1"} : PollLoop(timer, signature)
    \/ \E listener \in monitoring.listeners, signature \in {"s2"} :
           OnAccountChange(listener, signature)

(***************************************************************************)
(* TracingService: the chain tracer                                        *)
(***************************************************************************)
MaxTraceDepth == 3       \* maxDepth ranges over 0..MaxTraceDepth
EdgeMinimumChange == 1000   \* the 1000000 lamports of buildChainFlow

\* a transaction paying two accounts at once
Split(sig, slot, from, to1, to2) ==
    Tx(sig, slot, 1000 + slot, 5, "success",
       <<BalanceChange(from, -(2 * Sol + 5)), BalanceChange(to1, Sol), BalanceChange(to2, Sol)>>)

Pay(sig, slot, from, to) == Transfer(sig, slot, 1000 + slot, 5, "success", from, to, Sol)

\* a transfer below the thresholds
Dust(sig, slot, from, to) == Transfer(sig, slot, 1000 + slot, 5, "success", from, to, 100)

\* the ledgers traced, each in slot order
LedgerPool ==
    { \* a chain longer than any maxDepth of the run
      <<Pay("p1", 1, "A", "B"), Pay("p2", 2, "B", "C"), Pay("p3", 3, "C", "D"),
        Pay("p4", 4, "D", "E")>>,
      \* two branches that meet again: d3 and d4 are found along several paths
      <<Split("d1", 1, "A", "B", "C"), Pay("d2", 2, "B", "D"), Pay("d3", 3, "C", "D"),
        Pay("d4", 4, "D", "A")>>,
      \* funds going round, two transactions in one slot, and a transfer too small to follow
      <<Pay("r1", 1, "A", "B"), Pay("r2", 2, "B", "A"), Pay("r3", 2, "A", "B"),
        Dust("r4", 3, "B", "C"), Pay("r5", 4, "B", "A")>>,
      \* funds passed through a known mixer
      <<Pay("m1", 1, "A", "MixerAddress1"), Pay("m2", 2, "MixerAddress1", "B"),
        Pay("m3", 3, "B", "C")>>,
      \* q3 is found from q1 directly and, one hop later, through q2; q4 follows q3 only;
      \* the sender of q5 loses exactly the minimum of an edge
      <<Pay("q1", 1, "A", "B"), Pay("q2", 2, "B", "C"), Split("q3", 3, "C", "B", "E"),
        Pay("q4", 4, "E", "F"),
        Transfer("q5", 5, 1005, 5, "success", "F", "G", EdgeMinimumChange - 5)>> }

Reverse(s) == [i \in 1..Len(s) |-> s[Len(s) + 1 - i]]

AccountsOf(tx) == {tx.balanceChanges[i].account : i \in 1..Len(tx.balanceChanges)}

\* getRecentTransactions(account, 15): the transactions of the account, latest first
\* (the ledgers of the run hold fewer than 15)
AccountHistory(ledger, account) ==
    Reverse(SelectSeq(ledger, LAMBDA tx : account \in AccountsOf(tx)))

\* sort((a, b) => a.slot - b.slot), which keeps the order of equal slots
RECURSIVE SortBySlot(_)
SortBySlot(txs) ==
    IF txs = <<>> THEN <<>>
    ELSE LET rest == SortBySlot(Tail(txs))
             before == SelectSeq(rest, LAMBDA tx : tx.slot < Head(txs).slot)
             after == SelectSeq(rest, LAMBDA tx : tx.slot >= Head(txs).slot)
         IN  before \o <<Head(txs)>> \o after

\* a collection that gives up at the first account lookup that throws
RECURSIVE CollectUntilFailure(_, _, _, _, _, _)
CollectUntilFailure(ledger, transaction, receiving, i, failedAccounts, failedFetches) ==
    IF i > Len(receiving) THEN <<>>
    ELSE LET account == receiving[i].account
         IN  IF account \in failedAccounts
             THEN <<>>
             ELSE SelectSeq(AccountHistory(ledger, account),
                            LAMBDA tx : /\ tx.signature \notin failedFetches
                                        /\ tx.signature # transaction.signature
                                        /\ tx.slot > transaction.slot)
                  \o CollectUntilFailure(ledger, transaction, receiving, i + 1,
                                                failedAccounts, failedFetches)

\* the transactions collected for the receiving accounts from index i on; the account
\* lookups in failedAccounts and the transaction fetches in failedFetches throw
RECURSIVE CollectRelated(_, _, _, _, _, _)
CollectRelated(ledger, transaction, receiving, i, failedAccounts, failedFetches) ==
    IF i > Len(receiving) THEN <<>>
    ELSE LET account == receiving[i].account
             found == IF account \in failedAccounts
                      THEN <<>>
                      ELSE SelectSeq(AccountHistory(ledger, account),
                                     LAMBDA tx : /\ tx.signature \notin failedFetches
                                                 /\ tx.signature # transaction.signature
                                                 /\ tx.slot > transaction.slot)
         IN  found \o CollectRelated(ledger, transaction, receiving, i + 1,
                                     failedAccounts, failedFetches)

getRelatedTransactions(ledger, transaction, failedAccounts, failedFetches) ==
    LET receivingAccounts == SelectSeq(transaction.balanceChanges,
                                       LAMBDA bc : bc.change > MinimumTransferThreshold)
        relatedTransactions == CollectRelated(ledger, transaction, receivingAccounts, 1,
                                              failedAccounts, failedFetches)
    IN  FirstN(SortBySlot(UniqueBySignature(relatedTransactions, {})), 3)

\* the RPC calls of one getRelatedTransactions call that threw, and what it returned
Lookup(ledger, transaction, failedAccounts, failedFetches) ==
    LET receiving == {transaction.balanceChanges[i].account :
                         i \in {j \in 1..Len(transaction.balanceChanges) :
                                   transaction.balanceChanges[j].change
                                       > MinimumTransferThreshold}}
        listed == UNION {{tx.signature : tx \in SeqToSet(AccountHistory(ledger, account))} :
                            account \in receiving \ failedAccounts}
        related == getRelatedTransactions(ledger, transaction, failedAccounts,
                                          failedFetches)
    IN  [transaction |-> transaction.signature,
         failedAccounts |-> failedAccounts \cap receiving,
         failedFetches |-> failedFetches \cap listed,
         related |-> [i \in 1..Len(related) |-> related[i].signature]]

\* the nodes after those of a transaction are added: one per address
RECURSIVE AddNodes(_, _)
AddNodes(nodes, changes) ==
    IF changes = <<>> THEN nodes
    ELSE AddNodes(IF Head(changes).account \in SeqToSet(nodes)
                  THEN nodes ELSE Append(nodes, Head(changes).account),
                  Tail(changes))

\* edges for every pair of an outgoing change above the minimum and an incoming change
EdgesOfEachPair(transaction) ==
    LET negativeChanges == SelectSeq(transaction.balanceChanges, LAMBDA bc : bc.change < 0)
        positiveChanges == SelectSeq(transaction.balanceChanges, LAMBDA bc : bc.change > 0)
        paying == SelectSeq(negativeChanges,
                            LAMBDA bc : Abs(bc.change) > EdgeMinimumChange)
        n == Len(positiveChanges)
    IN  [k \in 1..(Len(paying) * n) |->
            [from |-> paying[((k - 1) \div n) + 1].account,
             to |-> positiveChanges[((k - 1) % n) + 1].account,
             amount |-> Abs(paying[((k - 1) \div n) + 1].change),
             transactionId |-> transaction.signature,
             timestamp |-> transaction.blockTime]]

\* the edges of a transaction: one per outgoing change above the minimum, to the first
\* account with an incoming change
EdgesOf(transaction) ==
    LET negativeChanges == SelectSeq(transaction.balanceChanges, LAMBDA bc : bc.change < 0)
        positiveChanges == SelectSeq(transaction.balanceChanges, LAMBDA bc : bc.change > 0)
        paying == SelectSeq(negativeChanges,
                            LAMBDA bc : Abs(bc.change) > EdgeMinimumChange)
    IN  IF positiveChanges = <<>> THEN <<>>
        ELSE [i \in 1..Len(paying) |->
                 [from |-> paying[i].account, to |-> positiveChanges[1].account,
                  amount |-> Abs(paying[i].change),
                  transactionId |-> transaction.signature,
                  timestamp |-> transaction.blockTime]]

\* initializeKnownEntities
knownExchanges ==
    {"9WzDXwBbmkg8ZTbNMqUxvQRAyrZzDsGYdLVL9zYtAWWM",
     "So11111111111111111111111111111111111111112"}
knownMixers == {"MixerAddress1", "MixerAddress2"}

calculateNodeRiskScore(address) ==
    IF address \in knownExchanges THEN 10
    ELSE IF address \in knownMixers THEN 80
    ELSE 50

MaxOf(S) == CHOOSE x \in S : \A y \in S : y <= x

\* the decimal digits of a number, and the order of Array.prototype.sort() without a
\* comparator, which compares the elements as strings
RECURSIVE DigitValues(_)
DigitValues(n) == IF n < 10 THEN <<n>> ELSE Append(DigitValues(n \div 10), n % 10)

RECURSIVE StringLess(_, _)
StringLess(s, t) ==
    IF t = <<>> THEN FALSE
    ELSE IF s = <<>> THEN TRUE
    ELSE IF s[1] # t[1] THEN s[1] < t[1]
    ELSE StringLess(Tail(s), Tail(t))

\* timestamps[timestamps.length - 1] - timestamps[0] of the sorted edge timestamps
TimeSpan(edges) ==
    LET timestamps == {edges[i].timestamp : i \in 1..Len(edges)}
        first == CHOOSE x \in timestamps :
                     \A y \in timestamps : ~StringLess(DigitValues(y), DigitValues(x))
        last == CHOOSE x \in timestamps :
                    \A y \in timestamps : ~StringLess(DigitValues(x), DigitValues(y))
    IN  last - first

\* detectSuspiciousPatterns, on the addresses of the nodes and the edges; without
\* edges the time span is NaN, which is below nothing
detectSuspiciousPatterns(nodes, edges) ==
    (IF \E i \in 1..Len(nodes) : nodes[i] \in knownMixers
     THEN <<"mixer_usage">> ELSE <<>>)
    \o (IF Len(edges) > 3 /\ TimeSpan(edges) < 300
        THEN <<"rapid_movement">> ELSE <<>>)
    \o (IF \E i \in 1..Len(nodes) : calculateNodeRiskScore(nodes[i]) > 70
        THEN <<"high_risk_nodes">> ELSE <<>>)
    \o (IF \E i \in 1..Len(edges) : edges[i].amount > LargeTransferThreshold
        THEN <<"large_transfers">> ELSE <<>>)

\* assessOverallRisk; Math.max of no node scores is -Infinity, which the other
\* arguments of the outer Math.max exceed
assessOverallRisk(nodes, edges, patterns) ==
    LET mixerRisk == IF "mixer_usage" \in SeqToSet(patterns) THEN 90 ELSE 0
        velocityRisk == IF "rapid_movement" \in SeqToSet(patterns) THEN 70 ELSE 0
        amountRisk == IF "large_transfers" \in SeqToSet(patterns) THEN 60 ELSE 0
        nodeRisks == {calculateNodeRiskScore(nodes[i]) : i \in 1..Len(nodes)}
        patternRisk == Len(patterns) * 20
        highest == MaxOf({mixerRisk, velocityRisk, amountRisk, patternRisk} \cup nodeRisks)
    IN  [overall |-> IF highest > 100 THEN 100 ELSE highest,
         factors |-> [mixer |-> mixerRisk, newWallets |-> 0, velocity |-> velocityRisk,
                      amount |-> amountRisk, patterns |-> patternRisk],
         confidence |-> IF Len(patterns) > 0 THEN 85 ELSE 50]

\* ForensicsService.calculateConfidence
calculateConfidence(patternCount) ==
    IF patternCount = 0 THEN 40
    ELSE IF patternCount = 1 THEN 60
    ELSE IF patternCount = 2 THEN 80
    ELSE 95

\* analyzeFlow
analyzeFlow(nodes, edges) ==
    [hopCount |-> IF Len(edges) > 1 THEN Len(edges) ELSE 1,
     suspiciousPatterns |-> detectSuspiciousPatterns(nodes, edges),
     riskAssessment |-> assessOverallRisk(nodes, edges,
                                          detectSuspiciousPatterns(nodes, edges))]

NoAnalysis == [hopCount |-> 0]   \* the flow has not been analysed yet

\* a tracer that stops at maxDepth only
buildChainFlowReturnsDepthOnly(transaction, currentDepth, maxDepth, visited) ==
    currentDepth >= maxDepth

\* the guard of buildChainFlow
buildChainFlowReturns(transaction, currentDepth, maxDepth, visited) ==
    currentDepth >= maxDepth \/ transaction.signature \in visited

Frame(transaction, depth) ==
    [transaction |-> transaction, depth |-> depth, stage |-> "enter", related |-> <<>>]

Pop(stack) == SubSeq(stack, 1, Len(stack) - 1)

InitTrace == trace = [status |-> "idle"]

\* traceChainFlow(rootTransaction, maxDepth, context)
TraceChainFlow(ledger, rootTransaction, maxDepth) ==
    /\ trace.status = "idle"
    /\ trace' = [status |-> "running", ledger |-> ledger, maxDepth |-> maxDepth,
                 rootTransaction |-> rootTransaction.signature,
                 stack |-> <<Frame(rootTransaction, 0)>>,
                 visited |-> {}, nodes |-> <<>>, edges |-> <<>>,
                 processed |-> <<>>, fetched |-> <<>>, lookups |-> <<>>,
                 analysis |-> NoAnalysis]
    /\ UNCHANGED outsideTrace

\* buildChainFlow from its entry to `await getRelatedTransactions`, or to its return
BuildChainFlowEnter ==
    /\ trace.status = "running"
    /\ trace.stack # <<>>
    /\ LET top == trace.stack[Len(trace.stack)]
           transaction == top.transaction
       IN  /\ top.stage = "enter"
           /\ IF buildChainFlowReturns(transaction, top.depth, trace.maxDepth, trace.visited)
              THEN trace' = [trace EXCEPT !.stack = Pop(@)]
              ELSE trace' =
                     [trace EXCEPT
                        !.visited = @ \cup {transaction.signature},
                        !.nodes = AddNodes(@, transaction.balanceChanges),
                        !.edges = @ \o EdgesOf(transaction),
                        !.processed = Append(@, <<transaction.signature, top.depth>>),
                        !.stack = IF top.depth < trace.maxDepth - 1
                                  THEN [@ EXCEPT ![Len(@)].stage = "related"]
                                  ELSE Pop(@)]
    /\ UNCHANGED outsideTrace

\* getRelatedTransactions returns what the RPC calls that did not fail gave it
BuildChainFlowRelated(failedAccounts, failedFetches) ==
    /\ trace.status = "running"
    /\ trace.stack # <<>>
    /\ LET top == trace.stack[Len(trace.stack)]
       IN  /\ top.stage = "related"
           /\ trace' =
                [trace EXCEPT
                   !.fetched = Append(@, <<top.transaction.signature, top.depth>>),
                   !.lookups = Append(@, Lookup(trace.ledger, top.transaction,
                                                failedAccounts, failedFetches)),
                   !.stack = [@ EXCEPT
                                ![Len(@)].stage = "loop",
                                ![Len(@)].related =
                                    getRelatedTransactions(trace.ledger, top.transaction,
                                                           failedAccounts, failedFetches)]]
    /\ UNCHANGED outsideTrace

\* the loop over the related transactions: the next buildChainFlow call, or the return
BuildChainFlowLoop ==
    /\ trace.status = "running"
    /\ trace.stack # <<>>
    /\ LET top == trace.stack[Len(trace.stack)]
       IN  /\ top.stage = "loop"
           /\ trace' =
                [trace EXCEPT
                   !.stack = IF top.related = <<>>
                             THEN Pop(@)
                             ELSE Append([@ EXCEPT ![Len(@)].related = Tail(top.related)],
                                         Frame(Head(top.related), top.depth + 1))]
    /\ UNCHANGED outsideTrace

\* buildChainFlow has returned to traceChainFlow, which analyses and returns the flow
TraceChainFlowReturn ==
    /\ trace.status = "running"
    /\ trace.stack = <<>>
    /\ trace' = [trace EXCEPT !.status = "done",
                              !.analysis = analyzeFlow(trace.nodes, trace.edges)]
    /\ UNCHANGED outsideTrace

BuildChainFlowStep ==
    \/ BuildChainFlowEnter
    \/ \E failedAccounts \in SUBSET {"B", "C"}, failedFetches \in SUBSET {"p2", "d3", "r3"} :
           BuildChainFlowRelated(failedAccounts, failedFetches)
    \/ BuildChainFlowLoop
    \/ TraceChainFlowReturn

NextTrace ==
    \/ \E ledger \in LedgerPool, i \in 1..3, maxDepth \in 0..MaxTraceDepth :
           TraceChainFlow(ledger, ledger[i], maxDepth)
    \/ BuildChainFlowStep

(***************************************************************************)
(* The services together                                                   *)
(***************************************************************************)
Init ==
    /\ now = 0
    /\ InitConfig
    /\ InitRules
    /\ InitLedger
    /\ InitAlerts
    /\ InitAudit
    /\ InitCache
    /\ InitMonitoring
    /\ InitImport
    /\ InitCluster
    /\ InitTrace

SpecRules == Init /\ [][NextRules]_vars
SpecRepeat == Init /\ [][NextRepeat]_vars
SpecPatterns == Init /\ [][NextPatterns]_vars
SpecWindows == Init /\ [][NextWindows]_vars
SpecImport == Init /\ [][NextImport]_vars
SpecThresholds == Init /\ [][NextThresholds]_vars

SpecLedger == Init /\ [][NextLedger]_vars
SpecExport == Init /\ [][NextExport]_vars
SpecAlerts == Init /\ [][NextAlerts]_vars

SpecAudit == Init /\ [][NextAudit]_vars
SpecAuditLog == Init /\ [][NextAuditLog]_vars

\* the digest a logEvent call awaits is delivered: crypto.subtle.digest resolves
SpecAuditFair ==
    Init /\ [][NextAudit]_vars /\ WF_vars(\E call \in auditCalls : LogEventHashed(call))

SpecCache == Init /\ [][NextCache]_vars
SpecMonitoring == Init /\ [][NextMonitoring]_vars
SpecCluster == Init /\ [][NextCluster]_vars

\* a call that waits on an RPC answer gets it, or an error, and runs on
SpecTrace == Init /\ [][NextTrace]_vars /\ WF_vars(BuildChainFlowStep)

(***************************************************************************)
(* Properties of the rule engine                                           *)
(***************************************************************************)
\* evidenceData.ruleId of an evidence record of the rule engine
EvidenceRuleId(evidence) == evidence.data.v[1][2].v

\* every condition of the rule is satisfied by the value extracted for its field
AllConditionsMatch(rule, tx, ctx) ==
    \A i \in 1..Len(rule.conditions) :
        evaluateCondition(rule.conditions[i],
                          extractFieldValue(tx, ctx, rule.conditions[i].field))

SomeConditionThrows(rule, tx, ctx) ==
    \E i \in 1..Len(rule.conditions) :
        ConditionThrows(rule.conditions[i],
                        extractFieldValue(tx, ctx, rule.conditions[i].field))

EvidenceOf(call, ruleId) ==
    {i \in 1..Len(call.evidence) : EvidenceRuleId(call.evidence[i]) = ruleId}

AlertsOf(call, ruleId) ==
    {i \in 1..Len(call.alerts) : EvidenceRuleId(call.alerts[i].evidence) = ruleId}

Returned(call) == call.called /\ ~call.threw

\* C1: in a call that returns, an enabled rule with N >= 1 conditions has produced
\* evidence if and only if every one of its N conditions matches the value extracted
\* for its field; with one condition failing it yields neither evidence nor alert.
C1_RuleAndSemantics ==
    Returned(lastValidation) =>
        \A k \in 1..Len(lastValidation.registry) :
            LET rule == lastValidation.registry[k]
                all == AllConditionsMatch(rule, lastValidation.tx, lastValidation.ctx)
            IN  (rule.enabled /\ Len(rule.conditions) >= 1) =>
                    /\ (EvidenceOf(lastValidation, rule.id) # {}) <=> all
                    /\ ~all => AlertsOf(lastValidation, rule.id) = {}

\* a rule of several conditions of which at least one matched and one failed was
\* evaluated, and yielded nothing
C1_Witness ==
    /\ Returned(lastValidation)
    /\ \E k \in 1..Len(lastValidation.registry) :
           LET rule == lastValidation.registry[k]
               m(i) == evaluateCondition(rule.conditions[i],
                           extractFieldValue(lastValidation.tx, lastValidation.ctx,
                                             rule.conditions[i].field))
           IN  /\ rule.enabled
               /\ \E i, j \in 1..Len(rule.conditions) : m(i) /\ ~m(j)
               /\ EvidenceOf(lastValidation, rule.id) = {}

\* C4: an error raised by one rule is confined to it: the call does not fail, and
\* every other enabled rule whose conditions match still yields its evidence.
C4_RuleErrorIsolated ==
    lastValidation.called =>
        /\ ~lastValidation.threw
        /\ \A k \in 1..Len(lastValidation.registry) :
               LET rule == lastValidation.registry[k]
               IN  (/\ rule.enabled
                    /\ ~SomeConditionThrows(rule, lastValidation.tx, lastValidation.ctx)
                    /\ AllConditionsMatch(rule, lastValidation.tx, lastValidation.ctx))
                   => EvidenceOf(lastValidation, rule.id) # {}

\* C5: an enabled rule whose condition list is empty produces no evidence and no alert.
C5_EmptyRuleNeverTriggers ==
    Returned(lastValidation) =>
        \A k \in 1..Len(lastValidation.registry) :
            LET rule == lastValidation.registry[k]
            IN  (rule.enabled /\ rule.conditions = <<>>) =>
                    /\ EvidenceOf(lastValidation, rule.id) = {}
                    /\ AlertsOf(lastValidation, rule.id) = {}

\* C6: the evidence list of a call that returns holds exactly one record per enabled
\* rule whose conditions all match, in registration order; the alert list holds exactly
\* one alert per such rule that has an 'alert' action, in the same order, each embedding
\* the evidence record of its own rule; disabled rules contribute nothing.
C6_OneEvidencePerTriggeredRule ==
    Returned(lastValidation) =>
        LET call == lastValidation
            fired == SelectSeq(call.registry,
                               LAMBDA r : r.enabled /\ AllConditionsMatch(r, call.tx, call.ctx))
            alerting == SelectSeq(fired, LAMBDA r : "alert" \in SeqToSet(r.actions))
        IN  /\ Len(call.evidence) = Len(fired)
            /\ \A i \in 1..Len(fired) :
                   /\ EvidenceRuleId(call.evidence[i]) = fired[i].id
                   /\ call.evidence[i].transactionId = call.tx.signature
            /\ Len(call.alerts) = Len(alerting)
            /\ \A j \in 1..Len(alerting) :
                   /\ EvidenceRuleId(call.alerts[j].evidence) = alerting[j].id
                   /\ call.alerts[j].severity = alerting[j].severity
                   /\ \E i \in 1..Len(call.evidence) : call.alerts[j].evidence = call.evidence[i]

\* two rules fired in one call, one of them without an alert, while a disabled rule
\* whose conditions matched contributed nothing
C6_Witness ==
    /\ Returned(lastValidation)
    /\ Len(lastValidation.evidence) >= 2
    /\ Len(lastValidation.alerts) >= 1
    /\ Len(lastValidation.alerts) < Len(lastValidation.evidence)
    /\ \E k \in 1..Len(lastValidation.registry) :
           LET rule == lastValidation.registry[k]
           IN  /\ ~rule.enabled
               /\ AllConditionsMatch(rule, lastValidation.tx, lastValidation.ctx)
               /\ EvidenceOf(lastValidation, rule.id) = {}

\* C7: with the default rules (large-transfer threshold 100 SOL) a successful 150 SOL
\* transfer with a normal fee and no recent transactions yields exactly one alert, of
\* severity critical and type large_transfer, and one evidence record, and
\* verifyEvidenceIntegrity of that record is true.
C7_LargeTransferEndToEnd ==
    (/\ lastValidation.called
     /\ lastValidation.registry = DefaultRules
     /\ lastValidation.tx = T150
     /\ lastValidation.ctx.recentTransactions = <<>>)
    => /\ ~lastValidation.threw
       /\ Len(lastValidation.alerts) = 1
       /\ lastValidation.alerts[1].severity = "critical"
       /\ lastValidation.alerts[1].type = "large_transfer"
       /\ Len(lastValidation.evidence) = 1
       /\ verifyEvidenceIntegrity(lastValidation.evidence[1])

\* the rule of the id, if it is enabled in the registry of the call, has produced
\* evidence exactly when the value extracted for the field exceeds the threshold
ComparesAgainst(call, ruleId, field, threshold) ==
    (\E k \in 1..Len(call.registry) :
        call.registry[k].id = ruleId /\ call.registry[k].enabled)
    => ((EvidenceOf(call, ruleId) # {})
        <=> evaluateCondition(Condition(field, "gt", Num(threshold)),
                              extractFieldValue(call.tx, call.ctx, field)))

\* C16: thresholds are hot-swappable: a validateTransaction call on the running
\* service compares against the thresholds of the configuration as they are when the
\* call is made: the large_transfer rule against largeTransferThreshold, the high_fee
\* rule against minimumTransferThreshold.
C16_ThresholdsHotSwappable ==
    Returned(lastValidation) =>
        /\ ComparesAgainst(lastValidation, "large_transfer", "balanceChange",
                           lastValidation.thresholds.largeTransferThreshold)
        /\ ComparesAgainst(lastValidation, "high_fee", "fee",
                           lastValidation.thresholds.minimumTransferThreshold)

\* an evidence record without its id, its timestamps and the hashes derived from them
EvidenceShape(evidence) ==
    [transactionId |-> evidence.transactionId,
     evidenceType |-> evidence.evidenceType,
     description |-> evidence.description,
     data |-> SelectSeq(evidence.data.v, LAMBDA pair : pair[1] # "timestamp"),
     chainOfCustody |-> [i \in 1..Len(evidence.chainOfCustody) |->
                            [action |-> evidence.chainOfCustody[i].action,
                             actor |-> evidence.chainOfCustody[i].actor,
                             description |-> evidence.chainOfCustody[i].description]],
     metadata |-> evidence.metadata]

\* an alert without its id and timestamp, around the shape of its evidence
AlertShape(alert) ==
    [severity |-> alert.severity, type |-> alert.type,
     transactionId |-> alert.transactionId, walletAddress |-> alert.walletAddress,
     evidence |-> EvidenceShape(alert.evidence), status |-> alert.status,
     notifications |-> alert.notifications]

ResultShape(call) ==
    [threw |-> call.threw,
     evidence |-> [i \in 1..Len(call.evidence) |-> EvidenceShape(call.evidence[i])],
     alerts |-> [i \in 1..Len(call.alerts) |-> AlertShape(call.alerts[i])]]

\* the latest call had the arguments and the registry of the call before it
SameCallAgain ==
    /\ lastValidation.called
    /\ lastValidation.previous.called
    /\ lastValidation.previous.tx = lastValidation.tx
    /\ lastValidation.previous.ctx = lastValidation.ctx
    /\ lastValidation.previous.registry = lastValidation.registry

FanOutWindowSeconds == 60

\* the transactions of the call, recent ones and the current one, that the sender of the
\* current transaction sent to some receiver within 60 s of the current transaction
SentInWindow(tx, ctx) ==
    {t \in SeqToSet(Append(ctx.recentTransactions, tx)) :
        /\ SenderOf(t) = SenderOf(tx)
        /\ ReceiverOf(t) # NoAccount
        /\ Abs(tx.blockTime - t.blockTime) <= FanOutWindowSeconds}

InWindowReceivers(tx, ctx) == {ReceiverOf(t) : t \in SentInWindow(tx, ctx)}

FanOutEnabled(call) ==
    \E k \in 1..Len(call.registry) :
        call.registry[k].id = "fan_out_pattern" /\ call.registry[k].enabled

\* C17: fan-out boundary: for a transaction with a sender and a block time, when the
\* sender has n >= 2 distinct receivers among the recent and the current transactions
\* within 60 s of the current one, the extractor returns n, and the fan_out_pattern
\* rule triggers exactly when n >= 3 (not at 2); transactions of other senders, repeated
\* receivers and transactions outside the window do not change the count.
C17_FanOutBoundary ==
    (/\ Returned(lastValidation)
     /\ SenderOf(lastValidation.tx) # NoAccount
     /\ HasBlockTime(lastValidation.tx))
    => LET n == Cardinality(InWindowReceivers(lastValidation.tx, lastValidation.ctx))
       IN  /\ n >= 2 => detectFanOutPattern(lastValidation.tx, lastValidation.ctx) = n
           /\ FanOutEnabled(lastValidation) =>
                  ((EvidenceOf(lastValidation, "fan_out_pattern") # {}) <=> n >= 3)

\* the sender has exactly two receivers in the window and a third one outside of it, one
\* receiver is repeated, and the rule did not trigger
C17_Witness ==
    /\ Returned(lastValidation)
    /\ FanOutEnabled(lastValidation)
    /\ HasBlockTime(lastValidation.tx)
    /\ Cardinality(InWindowReceivers(lastValidation.tx, lastValidation.ctx)) = 2
    /\ Cardinality(SentInWindow(lastValidation.tx, lastValidation.ctx)) = 3
    /\ detectFanOutPatternNoWindow(lastValidation.tx, lastValidation.ctx) = 3
    /\ EvidenceOf(lastValidation, "fan_out_pattern") = {}

\* a third distinct receiver in the window: the extractor returned 3 and the rule triggered
C17_ThirdReceiverTriggers ==
    /\ Returned(lastValidation)
    /\ Cardinality(InWindowReceivers(lastValidation.tx, lastValidation.ctx)) = 3
    /\ detectFanOutPattern(lastValidation.tx, lastValidation.ctx) = 3
    /\ EvidenceOf(lastValidation, "fan_out_pattern") # {}

\* the rules a text holds, when it is a list of rule objects
RulesIn(rulesJson) == [i \in 1..Len(rulesJson.v) |-> ValueToRule(rulesJson.v[i])]

\* C29: importRules is all-or-nothing: when it returns false the registry is what it was
\* before the call; when it returns true the registry holds exactly the imported rules;
\* and importing what exportRules returned leaves the registry as it was.
C29_ImportAllOrNothing ==
    imported.called =>
        /\ ~imported.ok => imported.after = imported.before
        /\ imported.ok => imported.after = RulesIn(imported.rulesJson)
        /\ imported.rulesJson = exportRules(imported.before) =>
               imported.ok /\ imported.after = imported.before

ClusterWindowSeconds == 300

\* a candidate is in the window of the current transaction, or either lacks a block time
IncludedInWindow(tx, candidate, seconds) ==
    \/ ~HasBlockTime(tx)
    \/ ~HasBlockTime(candidate)
    \/ Abs(tx.blockTime - candidate.blockTime) <= seconds

\* the receivers the sender of the current transaction paid in the included transactions
IncludedReceivers(tx, ctx) ==
    {ReceiverOf(t) : t \in {c \in SeqToSet(Append(ctx.recentTransactions, tx)) :
                               /\ SenderOf(c) = SenderOf(tx)
                               /\ ReceiverOf(c) # NoAccount
                               /\ IncludedInWindow(tx, c, FanOutWindowSeconds)}}

\* the included recent transactions that share an account with the current one
IncludedInteractions(tx, ctx) ==
    {i \in 1..Len(ctx.recentTransactions) :
        /\ AccountsOf(ctx.recentTransactions[i]) \cap AccountsOf(tx) # {}
        /\ IncludedInWindow(tx, ctx.recentTransactions[i], ClusterWindowSeconds)}

FanOutCountsMissing(call) ==
    /\ detectFanOutPattern(call.tx, call.ctx)
           = Cardinality(IncludedReceivers(call.tx, call.ctx))
    /\ FanOutEnabled(call) =>
           ((EvidenceOf(call, "fan_out_pattern") # {})
            <=> Cardinality(IncludedReceivers(call.tx, call.ctx)) >= FanOutMinRecipients)

ClusterCountsMissing(call) ==
    /\ detectClusterActivity(call.tx, call.ctx)
           = Cardinality(IncludedInteractions(call.tx, call.ctx))
    /\ (\E k \in 1..Len(call.registry) :
            call.registry[k].id = "wallet_clustering" /\ call.registry[k].enabled) =>
           ((EvidenceOf(call, "wallet_clustering") # {})
            <=> Cardinality(IncludedInteractions(call.tx, call.ctx))
                    >= ClusterMinInteractions)

\* C26: in the 60 s window of fanOutRecipients and in the 5 minute window of
\* clusterActivity a recent transaction is counted when the current transaction or the
\* recent one lacks a block time, and the two rules trigger on these counts.
C26_MissingBlockTimeIncluded ==
    (Returned(lastValidation) /\ lastValidation.ctx.recentTransactions # <<>>) =>
        /\ FanOutCountsMissing(lastValidation)
        /\ ClusterCountsMissing(lastValidation)

\* the edge chain of a call: the recent transactions followed by the current one, one
\* <<sender, receiver>> pair per transaction that has both
EdgeChain(tx, ctx) ==
    LET all == Append(ctx.recentTransactions, tx)
        both == SelectSeq(all, LAMBDA t : SenderOf(t) # NoAccount /\ ReceiverOf(t) # NoAccount)
    IN  [i \in 1..Len(both) |-> <<SenderOf(both[i]), ReceiverOf(both[i])>>]

\* at least 3 edges, and the sender of the first edge is an endpoint of an edge of
\* (0-based) index >= 2, or the receiver of the last edge
Circular(chain) ==
    /\ Len(chain) >= 3
    /\ \/ \E i \in 3..Len(chain) : chain[1][1] \in {chain[i][1], chain[i][2]}
       \/ chain[Len(chain)][2] = chain[1][1]

\* C18: the circularPattern extractor returns true if and only if the edge chain of the
\* call has at least 3 edges and either the first edge's sender reappears as an endpoint
\* of an edge at index >= 2 or the last edge's receiver equals the first edge's sender;
\* the chain A->B, B->C, C->D, D->A is flagged and the chain A->B, B->C, C->D is not.
C18_CircularPattern ==
    lastValidation.called =>
        LET chain == EdgeChain(lastValidation.tx, lastValidation.ctx)
            flagged == extractFieldValue(lastValidation.tx, lastValidation.ctx,
                                         "circularPattern")
        IN  /\ flagged = Bool(Circular(chain))
            /\ chain = <<(<<"A", "B">>), (<<"B", "C">>), (<<"C", "D">>), (<<"D", "A">>)>>
                   => flagged = Bool(TRUE)
            /\ chain = <<(<<"A", "B">>), (<<"B", "C">>), (<<"C", "D">>)>>
                   => flagged = Bool(FALSE)

\* the chain A->B, B->A, C->D was evaluated: the first sender reappears at index 1 only,
\* and the chain is not flagged
C18_Witness ==
    /\ lastValidation.called
    /\ EdgeChain(lastValidation.tx, lastValidation.ctx)
           = <<(<<"A", "B">>), (<<"B", "A">>), (<<"C", "D">>)>>
    /\ extractFieldValue(lastValidation.tx, lastValidation.ctx, "circularPattern")
           = Bool(FALSE)

\* the chain A->B, B->C, C->D, D->A was evaluated and the circular_transfer rule triggered
C18_ReturnFlagged ==
    /\ Returned(lastValidation)
    /\ EdgeChain(lastValidation.tx, lastValidation.ctx)
           = <<(<<"A", "B">>), (<<"B", "C">>), (<<"C", "D">>), (<<"D", "A">>)>>
    /\ EvidenceOf(lastValidation, "circular_transfer") # {}

\* the chain A->B, B->C, C->D was evaluated
C18_OnwardNotFlagged ==
    /\ Returned(lastValidation)
    /\ EdgeChain(lastValidation.tx, lastValidation.ctx)
           = <<(<<"A", "B">>), (<<"B", "C">>), (<<"C", "D">>)>>
    /\ EvidenceOf(lastValidation, "circular_transfer") = {}

(***************************************************************************)
(* Properties of the evidence ledger                                       *)
(***************************************************************************)
\* values a copy of a record may carry in a canonical field
AlternativeValues(field) ==
    CASE field = "id" -> {<<"EVID", 0, "r1">>, <<"EVID", 0, "r2">>, <<"EVID", 9, "zz">>}
      [] field = "transactionId" -> {"t150", "tFailed"}
      [] field = "timestamp" -> {Num(0), Num(1), Num(7)}
      [] field = "evidenceType" -> {"large_transfer", "suspicious_pattern"}
      [] field = "description" -> {"created by investigator", "edited"}
      [] field = "data" -> DataPool \cup {Obj(<< <<"amount", Num(6)>> >>),
                                          Obj(<< <<"note", Undefined>> >>),
                                          Obj(<< <<"note", Str("x")>> >>)}

\* the copies of a record that differ from it in exactly one canonical field
CopiesDifferingInOneField(evidence) ==
    UNION {{[evidence EXCEPT ![field] = v] : v \in AlternativeValues(field) \ {evidence[field]}} :
              field \in {"id", "transactionId", "timestamp", "evidenceType",
                         "description", "data"}}

\* every stored record verifies, whatever custody entries and metadata were added
StoredEvidenceVerifies ==
    \A i \in 1..Len(evidenceStore) : verifyEvidenceIntegrity(evidenceStore[i])

\* C2: every record createEvidence stored verifies against its hash, also after custody
\* entries and metadata changes, and no copy of it that differs in one of the six
\* canonical fields verifies.
C2_HashRoundTrip ==
    \A i \in 1..Len(evidenceStore) :
        /\ verifyEvidenceIntegrity(evidenceStore[i])
        /\ \A copy \in CopiesDifferingInOneField(evidenceStore[i]) :
               ~verifyEvidenceIntegrity(copy)

IsPrefix(s, t) == Len(s) <= Len(t) /\ \A i \in 1..Len(s) : s[i] = t[i]

\* the custody list of every stored record starts with its 'created' entry, which
\* carries the record's hash, and holds no other 'created' entry
CustodyStartsWithCreated ==
    \A i \in 1..Len(evidenceStore) :
        LET evidence == evidenceStore[i]
            chain == evidence.chainOfCustody
        IN  /\ evidence.hash # EmptyHash
            /\ chain # <<>>
            /\ chain[1].action = "created"
            /\ chain[1].hash = evidence.hash
            /\ \A j \in 2..Len(chain) : chain[j].action # "created"

\* no step removes a record or shortens or rewrites a custody list
CustodyOnlyGrows ==
    /\ Len(evidenceStore') >= Len(evidenceStore)
    /\ \A i \in 1..Len(evidenceStore) :
           /\ evidenceStore'[i].id = evidenceStore[i].id
           /\ IsPrefix(evidenceStore[i].chainOfCustody, evidenceStore'[i].chainOfCustody)

\* C3: in every reachable state of the ledger each stored record has a non-empty custody
\* list whose first entry is 'created' with the record's hash and no later 'created'
\* entry (so no record is visible with a hash but without that entry), and every step,
\* addChainOfCustodyEntry included, leaves each custody list a prefix of the new one.
C3_CustodyAppendOnly == [](CustodyStartsWithCreated) /\ [][CustodyOnlyGrows]_vars

\* a stored record has received a custody entry after 'created' while another
\* createEvidence call is waiting for its digest
C3_Witness ==
    /\ pendingEvidence # {}
    /\ custodyResult = "ok"
    /\ \E i \in 1..Len(evidenceStore) :
           /\ Len(evidenceStore[i].chainOfCustody) >= 2
           /\ evidenceStore[i].chainOfCustody[2].action # "created"

\* C13: addChainOfCustodyEntry called with an evidence id that is not in the ledger
\* fails with a not-found error, and leaves the evidence store and the
\* chain-of-custody store as they were.
C13_UnknownEvidenceRejected ==
    [][\A evidenceId \in EvidenceIds(evidenceStore) \cup {<<"EVID", 0, "unknown">>},
          action \in {"accessed", "modified", "transferred"} :
           (/\ evidenceId \notin EvidenceIds(evidenceStore)
            /\ AddChainOfCustodyEntry(evidenceId, action, "bob"))
           => /\ custodyResult' = "not_found"
              /\ evidenceStore' = evidenceStore
              /\ chainOfCustodyStore' = chainOfCustodyStore]_vars

\* the call has failed on a ledger that holds evidence with custody entries
C13_Witness ==
    /\ custodyResult = "not_found"
    /\ evidenceStore # <<>>
    /\ \E i \in 1..Len(evidenceStore) : Len(evidenceStore[i].chainOfCustody) >= 2

\* the audit log holds an entry of the action for the resource
Audited(action, resourceId) ==
    \E k \in 1..Len(auditLogs) :
        /\ auditLogs[k].action = action
        /\ auditLogs[k].resourceId = resourceId

\* C14: every lifecycle event is mirrored into the audit log: after createEvidence the
\* log holds an 'evidence_created' entry for the evidence id, and after a trace has
\* started and completed it holds 'trace_initiated' and 'trace_completed' entries for
\* the trace.
C14_LifecycleMirrored ==
    /\ \A i \in 1..Len(evidenceStore) : Audited("evidence_created", evidenceStore[i].id)
    /\ trace.status # "idle" => Audited("trace_initiated", <<"TRACE", trace.rootTransaction>>)
    /\ trace.status = "done" => Audited("trace_completed", <<"TRACE", trace.rootTransaction>>)

\* the channels selected for a severity
ChannelsOf(severity) ==
    CASE severity = "emergency" -> <<"desktop", "email", "webhook", "sms">>
      [] severity = "critical" -> <<"desktop", "email", "webhook">>
      [] severity = "warning" -> <<"desktop", "email">>
      [] severity = "info" -> <<"desktop">>

StoredAlert(alertId) ==
    forensicAlertsStore[CHOOSE i \in 1..Len(forensicAlertsStore) :
                            forensicAlertsStore[i].id = alertId]

\* the notification log of the alert holds one entry, with a delivery status, per channel
\* selected for its severity, and no other
OneEntryPerChannel(alert) ==
    /\ [i \in 1..Len(alert.notifications) |-> alert.notifications[i].method]
           = ChannelsOf(alert.severity)
    /\ \A i \in 1..Len(alert.notifications) :
           alert.notifications[i].status \in {"sent", "delivered", "failed"}

\* the notification log records the failure of every channel whose notification failed
FailuresRecorded(alert, failedChannels) ==
    \A i \in 1..Len(alert.notifications) :
        alert.notifications[i].method \in failedChannels
            => alert.notifications[i].status = "failed"

\* once createAlert has returned, every channel of the severity of the alert was attempted,
\* whatever happened on the channels before it
C20_EveryChannelAttempted ==
    \A call \in alertCalls : call.returned => OneEntryPerChannel(StoredAlert(call.id))

\* C20: after createAlert of an alert of severity s, the notification log of the stored
\* alert holds exactly one entry, with a delivery status, per channel selected for s
\* (emergency: desktop, email, webhook, sms; critical: desktop, email, webhook; warning:
\* desktop, email; info: desktop) and no others; a failure on one channel is recorded for
\* that channel and does not prevent the attempts on the remaining channels.
C20_NotificationLogged ==
    \A call \in alertCalls :
        call.returned =>
            /\ OneEntryPerChannel(StoredAlert(call.id))
            /\ FailuresRecorded(StoredAlert(call.id), call.threw)

(***************************************************************************)
(* Properties of the audit log                                             *)
(***************************************************************************)
\* C8: when a logEvent call returns, every entry it recorded that is a
\* 'security_violation', or has riskLevel 'critical', or is an 'evidence_accessed'
\* flagged as unusual, has in the log a 'security_violation' entry that references its id.
C8_ViolationLoggedBeforeReturn ==
    \A auditLog \in auditReturned :
        HasViolations(auditLog) =>
            \E k \in 1..Len(auditLogs) :
                /\ auditLogs[k].action = "security_violation"
                /\ auditLogs[k].resourceId = auditLog.id

\* the logEvent call that wrote the entry of this number has not returned yet
LogEventInProgress(n) == \E call \in auditCalls : call[1].id = <<"AUDIT", n>>

Retained(logs) == SelectSeq(logs, LAMBDA log : log.timestamp > now - retentionDays)

\* what a step may do to the log: keep every entry as it is, or keep exactly the
\* entries newer than (now - retentionDays) as they are, in both cases in their order
\* and with at most one new entry after them; a read keeps the log as it is
AuditLogStep ==
    /\ \/ /\ IsPrefix(auditLogs, auditLogs')
          /\ Len(auditLogs') <= Len(auditLogs) + 1
       \/ /\ IsPrefix(Retained(auditLogs), auditLogs')
          /\ Len(auditLogs') <= Len(Retained(auditLogs)) + 1
          /\ Retained(auditLogs') = auditLogs'
    /\ auditRead' # NoRead => auditLogs' = auditLogs

\* C12: the audit log is append-only: an entry appended by logEvent stays in the log,
\* unchanged and in its original relative order, across later logEvent, getAuditLogs,
\* generateAuditReport and exportAuditLogs calls; the only removal is retention
\* pruning, which removes exactly the entries not newer than (now - retentionDays);
\* retentionDays starts at 2555.
C12_AuditAppendOnly ==
    /\ retentionDays = 2555
    /\ [][AuditLogStep]_vars

\* the first entry was pruned when the second was logged a day later under a retention
\* of one day; a report was generated before, and the log has just been exported
C12_Witness ==
    /\ auditRead.op = "exportAuditLogs"
    /\ Len(auditLogs) = 1
    /\ auditLogs[1].id = <<"AUDIT", 2>>
    /\ Len(auditReports) = 1
    /\ Len(auditReports[1].details) = 1
    /\ auditReports[1].details[1].id = <<"AUDIT", 1>>

(***************************************************************************)
(* Properties of the recent-transaction cache                              *)
(***************************************************************************)
\* C9: the cache is bounded: after any sequence of analyzeTransactionWithRules calls,
\* once none of them is still in progress, it holds at most transactionCacheSize entries.
C9_CacheBoundedFifo ==
    analyses = {} => Len(transactionCache) <= transactionCacheSize

NoRepeat(s) == \A i, j \in 1..Len(s) : s[i] = s[j] => i = j

\* the (transaction, rule) pairs of the alerts store, in its order
AlertKeys ==
    [i \in 1..Len(alertsStore) |->
        <<alertsStore[i].transactionSignature, alertsStore[i].evidence.description>>]

\* C11: a transaction is run through the rule engine once, however often and by
\* whichever source its signature is delivered: the transactions store holds one
\* entry per signature and the alerts store at most one alert per
\* (transaction, triggered rule).
C11_AnalysedOnce ==
    /\ NoRepeat(validated)
    /\ NoRepeat(transactionsStore)
    /\ NoRepeat(AlertKeys)

\* C30: determineClusterDynamic returns devnet, testnet or mainnet-beta for the three
\* known genesis hashes whatever the URL, and when the genesis hash query fails or
\* answers an unknown hash it returns what determineCluster returns for the URL.
C30_GenesisThenUrl ==
    clusterDetection.status = "done" =>
        clusterDetection.cluster =
            CASE clusterDetection.genesisHash = DevnetGenesis -> "devnet"
              [] clusterDetection.genesisHash = TestnetGenesis -> "testnet"
              [] clusterDetection.genesisHash = MainnetGenesis -> "mainnet-beta"
              [] OTHER -> determineCluster(clusterDetection.rpcUrl)

\* C23: after disconnect() no polling timer and no account subscription created by
\* startMonitoring remains active and no further transaction is analysed, for any
\* number of earlier startMonitoring calls and wherever their asynchronous setup stands
\* when disconnect is called.
C23_NothingActiveAfterDisconnect ==
    /\ [](monitoring.cleanup = "done" =>
             /\ monitoring.timers = {}
             /\ monitoring.listeners = {})
    /\ [][monitoring.cleanup = "done" => analysesStarted' = analysesStarted]_vars

(***************************************************************************)
(* Properties of the chain tracer                                          *)
(***************************************************************************)
TraceStarted == trace.status # "idle"

\* no transaction is processed at depth maxDepth or deeper
ProcessedBelowMaxDepth ==
    \A i \in 1..Len(trace.processed) : trace.processed[i][2] < trace.maxDepth

\* related transactions are fetched only at depths below maxDepth - 1
FetchedBelowLastDepth ==
    \A i \in 1..Len(trace.fetched) : trace.fetched[i][2] < trace.maxDepth - 1

\* no signature is processed twice, and none contributes edges it was not processed for
ProcessedOnce ==
    /\ \A i, j \in 1..Len(trace.processed) :
           trace.processed[i][1] = trace.processed[j][1] => i = j
    /\ \A i, j \in 1..Len(trace.edges) :
           (trace.edges[i].transactionId = trace.edges[j].transactionId
            /\ trace.edges[i].from = trace.edges[j].from) => i = j
    /\ \A i, j \in 1..Len(trace.nodes) : trace.nodes[i] = trace.nodes[j] => i = j

\* 0.30*mixer + 0.20*newWallets + 0.20*velocity + 0.15*amount + 0.15*patterns, rounded
\* to the nearest integer
WeightedOverall(factors) ==
    (30 * factors.mixer + 20 * factors.newWallets + 20 * factors.velocity
     + 15 * factors.amount + 15 * factors.patterns + 50) \div 100

\* C15: the overall score of the risk assessment of a traced flow is the weighted sum
\* of its own factor scores, 0.30*mixer + 0.20*newWallets + 0.20*velocity + 0.15*amount
\* + 0.15*patterns rounded to an integer, and lies in 0..100.
C15_OverallIsWeightedSum ==
    trace.status = "done" =>
        /\ trace.analysis.riskAssessment.overall =
               WeightedOverall(trace.analysis.riskAssessment.factors)
        /\ trace.analysis.riskAssessment.overall \in 0..100

\* C28: exportEvidence(id) returns as chainOfCustody exactly the custody entries of the
\* evidence id, in the order in which they were appended, and no entry of another record,
\* also when entries of several records were written in the same millisecond.
C28_ExportsOwnCustody ==
    (exported.called /\ ~exported.threw) =>
        /\ exported.evidence.id = exported.evidenceId
        /\ exported.chainOfCustody = exported.evidence.chainOfCustody

\* C27: the confidence of the risk assessment of a traced flow is 40 for no suspicious
\* pattern, 60 for one, 80 for two and 95 for three or more, and depends on nothing else.
C27_ConfidenceByPatternCount ==
    trace.status = "done" =>
        trace.analysis.riskAssessment.confidence
            = calculateConfidence(Cardinality(SeqToSet(trace.analysis.suspiciousPatterns)))

LedgerTransaction(signature) ==
    CHOOSE tx \in SeqToSet(trace.ledger) : tx.signature = signature

ProcessedSignatures == {trace.processed[i][1] : i \in 1..Len(trace.processed)}

\* the transactions a lookup has to find: the later transactions, other than the current
\* one, whose fetch did not fail, of the receiving accounts whose history fetch did not fail
Findable(lookup) ==
    LET current == LedgerTransaction(lookup.transaction)
    IN  {tx \in SeqToSet(trace.ledger) :
            /\ tx.signature # current.signature
            /\ tx.slot > current.slot
            /\ tx.signature \notin lookup.failedFetches
            /\ \E i \in 1..Len(current.balanceChanges) :
                   /\ current.balanceChanges[i].change > MinimumTransferThreshold
                   /\ current.balanceChanges[i].account \notin lookup.failedAccounts
                   /\ current.balanceChanges[i].account \in AccountsOf(tx)}

\* a lookup returns the findable transactions, or the 3 of them in the earliest slots
FailuresSkipped(lookup) ==
    LET findable == Findable(lookup)
        related == SeqToSet(lookup.related)
    IN  /\ related \subseteq {tx.signature : tx \in findable}
        /\ \/ related = {tx.signature : tx \in findable}
           \/ /\ Len(lookup.related) = 3
              /\ \A tx \in findable :
                     tx.signature \notin related =>
                         \A r \in related : LedgerTransaction(r).slot <= tx.slot

\* the returned flow holds the nodes and edges of every transaction processed, and every
\* transaction a lookup returned was processed
FlowComplete ==
    /\ \A i \in 1..Len(trace.lookups) :
           SeqToSet(trace.lookups[i].related) \subseteq ProcessedSignatures
    /\ \A signature \in ProcessedSignatures :
           /\ AccountsOf(LedgerTransaction(signature)) \subseteq SeqToSet(trace.nodes)
           /\ SeqToSet(EdgesOf(LedgerTransaction(signature))) \subseteq SeqToSet(trace.edges)

FetchFailed ==
    \E i \in 1..Len(trace.lookups) :
        trace.lookups[i].failedAccounts # {} \/ trace.lookups[i].failedFetches # {}

\* C19: a failed fetch of the history of one receiving account, or of one related
\* transaction, does not abort the trace: every lookup still returns the transactions of
\* the other accounts and the other fetches, they are traced, and a trace in which a
\* fetch failed still returns, with a flow that holds everything traced.
C19_FetchFailureTolerated ==
    /\ [](TraceStarted => \A i \in 1..Len(trace.lookups) : FailuresSkipped(trace.lookups[i]))
    /\ [](trace.status = "done" => FlowComplete)
    /\ (trace.status = "running" /\ FetchFailed) ~> (trace.status = "done" /\ FetchFailed)

\* the transactions within the given number of hops of those given, a hop leading from a
\* transaction to each one getRelatedTransactions returns for it
RECURSIVE ReachableWithin(_, _)
ReachableWithin(transactions, hops) ==
    IF hops <= 0 THEN transactions
    ELSE transactions
         \cup ReachableWithin(
                  UNION {SeqToSet(getRelatedTransactions(trace.ledger, tx, {}, {})) :
                            tx \in transactions},
                  hops - 1)

WithinDepthBound ==
    ReachableWithin({LedgerTransaction(trace.rootTransaction)}, trace.maxDepth - 1)

\* C24: when a trace in which no fetch failed has returned, every transaction within
\* fewer than maxDepth hops of the root was processed and its edges are in the flow,
\* also when the transaction is reachable by a longer path as well.
C24_CompleteWithinDepth ==
    (trace.status = "done" /\ trace.maxDepth > 0 /\ ~FetchFailed) =>
        \A tx \in WithinDepthBound :
            /\ tx.signature \in ProcessedSignatures
            /\ SeqToSet(EdgesOf(tx)) \subseteq SeqToSet(trace.edges)

\* the edges of the flow that come from a transaction
FlowEdgesOf(signature) ==
    {i \in 1..Len(trace.edges) : trace.edges[i].transactionId = signature}

\* the senders of a transaction: the accounts whose balance fell by more than the minimum
SendersOf(tx) ==
    {tx.balanceChanges[i].account :
        i \in {j \in 1..Len(tx.balanceChanges) :
                  /\ tx.balanceChanges[j].change < 0
                  /\ Abs(tx.balanceChanges[j].change) > EdgeMinimumChange}}

\* the receivers of a transaction, in the order of its balance changes
ReceiversOf(tx) ==
    LET positiveChanges == SelectSeq(tx.balanceChanges, LAMBDA bc : bc.change > 0)
    IN  [i \in 1..Len(positiveChanges) |-> positiveChanges[i].account]

C19_Witness ==
    /\ trace.status = "done"
    /\ trace.rootTransaction = "d1"
    /\ \E i \in 1..Len(trace.lookups) :
           /\ trace.lookups[i].transaction = "d1"
           /\ trace.lookups[i].failedAccounts = {"B"}
           /\ trace.lookups[i].related = <<"d3">>
    /\ "d3" \in ProcessedSignatures
    /\ \E j \in 1..Len(trace.edges) : trace.edges[j].transactionId = "d3"

\* a trace has returned in which the fetch of one related transaction failed and the
\* other transactions of the same account were traced
C19_FetchSkipped ==
    /\ trace.status = "done"
    /\ \E i \in 1..Len(trace.lookups) :
           /\ trace.lookups[i].failedFetches # {}
           /\ trace.lookups[i].failedAccounts = {}
           /\ trace.lookups[i].related # <<>>

\* C10: traceChainFlow terminates on every ledger and for every maxDepth: no transaction
\* is processed at depth >= maxDepth, related transactions are fetched only while
\* depth < maxDepth - 1, each signature is processed at most once per trace, and the
\* call returns.
C10_TraceTerminates ==
    /\ [](TraceStarted => ProcessedBelowMaxDepth /\ FetchedBelowLastDepth /\ ProcessedOnce)
    /\ (trace.status = "running") ~> (trace.status = "done")

\* a trace has returned in which a transaction found along two paths was processed once,
\* a transaction at the last depth was processed without a fetch, and the chain went on
\* beyond maxDepth
C10_Witness ==
    /\ trace.status = "done"
    /\ trace.maxDepth = 3
    /\ trace.rootTransaction = "d1"
    /\ {trace.processed[i][1] : i \in 1..Len(trace.processed)} = {"d1", "d2", "d3", "d4"}
    /\ Len(trace.fetched) < Len(trace.processed)

====
